---- MODULE Spec2Model ----
(***************************************************************************)
(* ArchiveBuilder (src/hotspot/share/cds/archiveBuilder.cpp): gathering of *)
(* the metadata object graph, shallow copying into the rw/ro dump regions, *)
(* and the two relocation passes over the pointer bitmaps.                 *)
(*                                                                         *)
(* Addresses are byte addresses held as integers; 0 is nullptr.  Sizes of  *)
(* the address ranges are scaled down, the arithmetic on them is the       *)
(* code's.                                                                 *)
(***************************************************************************)
EXTENDS Integers, Sequences, FiniteSets, TLC

\* ------------------------------------------------------------------ bounds
\* number of metadata objects in the live process that a build may reach
NumObjs == 3

\* -------------------------------------------------------- program constants
\* sizeof(address)
WordSize == 8
\* SharedSpaceObjectAlignment
ObjAlign == 8
\* MetaspaceShared::core_region_alignment(), scaled down
CoreRegionAlignment == 64
\* _total_dump_regions
TotalDumpRegions == 2
\* the allowance added for a static dump (200M in the code), scaled down
StaticExtraEstimate == 128
\* initial size in bits of a SourceObjList::_ptrmap (16K in the code), scaled down
InitialPtrmapSize == 4
\* bytes rw_region()->allocate() takes at the bottom of a static archive
BottomPadBytes == 16

Objs == 1..NumObjs

align_up(n, a) == ((n + a - 1) \div a) * a

Max(S) == CHOOSE x \in S : \A y \in S : y <= x

\* ------------------------------------------------------ live-process layout
\* bottom and top of the static archive that is mapped while a dynamic dump runs
MappedStaticBottom == 128 * WordSize
MappedStaticSize == 32 * WordSize
MappedStaticTop == MappedStaticBottom + MappedStaticSize
\* lowest address of the ordinary (not shared) metadata objects
SrcHeapBottom == 512 * WordSize
\* distance between two objects of the live process
SrcStride == 4 * WordSize
\* the live process's C++ vtable of a Klass (lies in no archive and no buffer)
LiveVtable == 750 * WordSize

\* the builders a process may construct, and how often it may construct each
NumBuilders == 3
MaxLives == 2
Builders == 1..NumBuilders

\* The follow modes of ArchiveBuilder::FollowMode.
make_a_copy == "make_a_copy"
point_to_it == "point_to_it"
set_to_null == "set_to_null"

\* MetaspaceObj::Type values the builder distinguishes.
MsoTypes == {"Class", "Symbol", "ConstMethod", "MethodData", "MethodCounters"}
KlassKinds == {"instance", "objArray", "typeArray"}

\* What the collaborators answer about one referenced object:
\*   msotype      ref->msotype()
\*   in_shared    MetaspaceShared::is_in_shared_metaspace(obj)
\*   klass_kind   is_instance_klass / is_objArray_klass / otherwise (classes only)
\*   bottom_inst  ObjArrayKlass::bottom_klass()->is_instance_klass()
\*   sd_excluded  SystemDictionaryShared::is_excluded_class of the class (or of
\*                the bottom class of an object array class)
\*   regen        the object RegeneratedClasses holds as the regenerated version
\*                of this one; 0: it has not been regenerated
Desc(t, s, k, b, e) ==
  [msotype |-> t, in_shared |-> s, klass_kind |-> k, bottom_inst |-> b, sd_excluded |-> e,
   regen |-> 0]

AllDescs ==
  { Desc(t, s, k, b, e) : t \in MsoTypes, s \in BOOLEAN, k \in KlassKinds,
                          b \in BOOLEAN, e \in BOOLEAN }

\* The slots of an object of each type, one per word: "vptr" is the C++ vtable
\* pointer, "name" the Symbol* that names a class and "ptr" any other field the
\* reference walker reports, "data" anything else.
Layout(t) ==
  CASE t = "Class"          -> <<"vptr", "name", "ptr">>
    [] t = "ConstMethod"    -> <<"ptr", "data">>
    [] t = "Symbol"         -> <<"data">>
    [] t = "MethodData"     -> <<"data", "data">>
    [] t = "MethodCounters" -> <<"data">>

SizeInWords(t) == Len(Layout(t))

PtrSlots(t) == { i \in 1..Len(Layout(t)) : Layout(t)[i] \in {"name", "ptr"} }

VARIABLES
  \* ---- the live process (inputs of a build; never written by the builder)
  DynamicDumpSharedSpaces, \* TRUE: dynamic dump on top of a mapped static archive
                           \* FALSE: static dump (DumpSharedSpaces)
  graph,                   \* object -> [d: Desc, tgt: slot -> referenced object or 0]
  roots,                   \* what iterate_roots() pushes, in order
  \* ---- ArchiveBuilder
  pc,                      \* the phase of the build
  fatal,                   \* "none", or the fatal error / failed assertion that stopped it
  klasses, symbols,        \* _klasses, _symbols (sequences of objects)
  estimated_bytes,         \* _estimated_metaspaceobj_bytes
  src_obj_table,           \* _src_obj_table: source address -> SourceObjInfo
  rw_src_objs, ro_src_objs,\* SourceObjList: [objs, total_bytes, ptrmap, ptrmap_size]
  \* ---- the reference walker (MetaspaceClosure) during the second gathering pass
  root_queue,              \* roots still to be pushed
  pending,                 \* <<object, slot>> references still to be reported
  visits,                  \* log of the do_ref calls, for the claims
  \* ---- the output buffer
  addr,                    \* the address-space fields set by reserve_buffer / relocate_to_requested
  rw_region, ro_region,    \* DumpRegion: [base, top, end]
  buf,                     \* the buffer's contents: word index from _buffer_bottom -> word
  ptrmap,                  \* ArchivePtrMarker::ptrmap(): [bits, size, compacted]
  buffered_to_src_table,   \* _buffered_to_src_table: buffered address -> source address
  archived_vtable,         \* what CppVtables::get_archived_vtable answers for a class
  last_verified_top,       \* _last_verified_top
  other_region_used_bytes, \* _other_region_used_bytes
  \* ---- the builders of the process
  current,                 \* ArchiveBuilder::_current: a builder, or 0 for nullptr
  live,                    \* the builders constructed and not yet destroyed
  constructions,           \* builder -> how often its constructor has run to its end
  \* ---- get_follow_mode applied to one reference on its own
  fm_ref, fm_result,
  \* ---- the container the archive is written to (FileMapInfo)
  mapinfo,                 \* [ops, header, file]: the calls made, the header in memory, the file
  \* ---- the Symbols of the live process
  refcounts                \* object -> [inc, dec]: the increment_refcount() and
                           \* decrement_refcount() calls the builders have made on it

gatherVars == <<klasses, symbols, estimated_bytes, src_obj_table, rw_src_objs,
                ro_src_objs, root_queue, pending, visits>>
inputVars == <<DynamicDumpSharedSpaces, graph, roots>>
fmVars == <<fm_ref, fm_result>>
bufVars == <<addr, rw_region, ro_region, buf, ptrmap, buffered_to_src_table, archived_vtable>>
verifyVars == <<last_verified_top, other_region_used_bytes>>
singletonVars == <<current, live, constructions>>
writeVars == <<mapinfo>>
symbolVars == <<refcounts>>
vars == <<inputVars, pc, fatal, gatherVars, bufVars, fmVars, singletonVars, verifyVars,
          writeVars, symbolVars>>

\* ------------------------------------------------------------ source memory
SrcAddr(o) ==
  IF graph[o].d.in_shared
    THEN MappedStaticBottom + SrcStride * o
    ELSE SrcHeapBottom + SrcStride * o

ObjAt(a) == CHOOSE o \in Objs : SrcAddr(o) = a

\* a data word; that of object 2 has the bit pattern of an object's address
DataWord(o) == IF o = 2 THEN SrcHeapBottom + SrcStride ELSE 7 + 16 * o

\* The word at word offset i-1 of object o in the live process.
SrcWord(o, i) ==
  LET k == Layout(graph[o].d.msotype)[i]
  IN  CASE k = "vptr" -> LiveVtable
        [] k = "data" -> DataWord(o)
        [] OTHER      -> IF graph[o].tgt[i] = 0 THEN 0 ELSE SrcAddr(graph[o].tgt[i])

\* ------------------------------------------------------------ classification
is_excluded(d, dyn) ==
  IF d.klass_kind = "instance" THEN d.sd_excluded
  ELSE IF d.klass_kind = "objArray"
    THEN IF dyn THEN TRUE
         ELSE IF d.bottom_inst THEN d.sd_excluded ELSE FALSE
  ELSE FALSE

\* a faulty variant: the kind of the object is looked at before its location
get_follow_mode_kind_first(d, dyn) ==
  IF d.msotype \in {"MethodData", "MethodCounters"} THEN set_to_null
  ELSE IF d.in_shared THEN point_to_it
  ELSE IF d.msotype = "Class" /\ is_excluded(d, dyn) THEN set_to_null
  ELSE make_a_copy

get_follow_mode(d, dyn) ==
  IF d.in_shared THEN point_to_it
  ELSE IF d.msotype \in {"MethodData", "MethodCounters"} THEN set_to_null
  ELSE IF d.msotype = "Class" /\ is_excluded(d, dyn) THEN set_to_null
  ELSE make_a_copy

FollowModeOf(o) == get_follow_mode(graph[o].d, DynamicDumpSharedSpaces)

\* RegeneratedClasses::has_been_regenerated(a): a is the address of an object
\* for which a regenerated version has been recorded
has_been_regenerated(a) == \E o \in Objs : SrcAddr(o) = a /\ graph[o].d.regen # 0

\* ------------------------------------------------------------ MetaspaceClosure::Ref
\* obj: ref->obj(); enclosing: ref->enclosing_obj() (0: a root);
\* field_addr: ref->addr(), the address of the field that holds obj.
Ref(obj, enclosing, field_addr) ==
  [obj |-> obj, enclosing |-> enclosing, field_addr |-> field_addr]

RootRef(o) == Ref(SrcAddr(o), 0, 0)

FieldRef(o, i) == Ref(SrcWord(o, i), SrcAddr(o), SrcAddr(o) + (i - 1) * WordSize)

RefMsoType(ref) == graph[ObjAt(ref.obj)].d.msotype
RefSizeInBytes(ref) == SizeInWords(RefMsoType(ref)) * WordSize

\* the read_only flag MetaspaceClosure::do_push computes for a reference
is_read_only_by_default(t) == t \in {"Symbol", "ConstMethod"}
\* a faulty variant: a root is pushed as writable, whatever its type
RefReadOnly_roots_writable(ref) ==
  ref.enclosing # 0 /\ is_read_only_by_default(RefMsoType(ref))

RefReadOnly(ref) == is_read_only_by_default(RefMsoType(ref))

\* ------------------------------------------------------------ SourceObjInfo
SourceObjInfo(ref, read_only, follow_mode) ==
  [ source_addr   |-> ref.obj,
    follow_mode   |-> follow_mode,
    read_only     |-> read_only,
    msotype       |-> RefMsoType(ref),
    size_in_bytes |-> RefSizeInBytes(ref),
    ptrmap_start  |-> 0,
    ptrmap_end    |-> 0,
    buffered_addr |-> IF follow_mode = point_to_it THEN ref.obj ELSE 0 ]

should_copy(info) == info.follow_mode = make_a_copy

\* ------------------------------------------------------------ SourceObjList
EmptySourceObjList ==
  [objs |-> <<>>, total_bytes |-> 0, ptrmap |-> {}, ptrmap_size |-> InitialPtrmapSize]

\* SourceObjList::append: the list after the append, and the interval it reserved
\* a faulty variant: the interval starts at _total_bytes, not divided by the word size
AppendInterval_in_bytes(list, info) ==
  [ start |-> list.total_bytes,
    end   |-> align_up(list.total_bytes + info.size_in_bytes, WordSize) \div WordSize ]

AppendInterval(list, info) ==
  [ start |-> list.total_bytes \div WordSize,
    end   |-> align_up(list.total_bytes + info.size_in_bytes, WordSize) \div WordSize ]

\* a faulty variant: the bitmap is resized to the size needed and no further
SourceObjList_append_resize_to_needed(list, info) ==
  LET iv == AppendInterval(list, info)
  IN  [ objs        |-> Append(list.objs, info.source_addr),
        total_bytes |-> align_up(list.total_bytes + info.size_in_bytes, WordSize),
        ptrmap      |-> list.ptrmap,
        ptrmap_size |-> IF list.ptrmap_size <= iv.end THEN iv.end ELSE list.ptrmap_size ]

SourceObjList_append(list, info) ==
  LET iv == AppendInterval(list, info)
  IN  [ objs        |-> Append(list.objs, info.source_addr),
        total_bytes |-> align_up(list.total_bytes + info.size_in_bytes, WordSize),
        ptrmap      |-> list.ptrmap,
        ptrmap_size |-> IF list.ptrmap_size <= iv.end
                          THEN (iv.end + 1) * 2 ELSE list.ptrmap_size ]

\* The assertions of SourceObjList::remember_embedded_pointer.
RememberAssertsHold(list, info, ref) ==
  LET off == ref.field_addr - info.source_addr
  IN  /\ info.ptrmap_start < list.total_bytes
      /\ info.ptrmap_end <= list.total_bytes
      /\ ref.obj # 0
      /\ off >= 0
      /\ off + WordSize <= info.size_in_bytes
      /\ off % WordSize = 0

\* the bit SourceObjList::remember_embedded_pointer sets
\* a faulty variant: the field's word offset alone, without ptrmap_start
RememberedBit_without_start(info, ref) ==
  (ref.field_addr - info.source_addr) \div WordSize

RememberedBit(info, ref) ==
  info.ptrmap_start + ((ref.field_addr - info.source_addr) \div WordSize)

SourceObjList_remember_embedded_pointer(list, info, ref) ==
  [list EXCEPT !.ptrmap = @ \cup {RememberedBit(info, ref)}]

\* ------------------------------------------------------------ ArchiveBuilder: gathering
DumpSharedSpaces == ~DynamicDumpSharedSpaces

RefDesc(ref) == graph[ObjAt(ref.obj)].d

\* remember_embedded_pointer_in_enclosing_obj: the two lists afterwards, and
\* whether the assertions it passes through held.
remember_embedded_pointer_in_enclosing_obj(tbl, rw, ro, ref) ==
  IF ref.enclosing = 0
    THEN [rw |-> rw, ro |-> ro, ok |-> TRUE]
  ELSE IF ref.enclosing \notin DOMAIN tbl \/ ~should_copy(tbl[ref.enclosing])
    THEN [rw |-> rw, ro |-> ro, ok |-> TRUE]
  ELSE LET src_info == tbl[ref.enclosing]
       IN  IF src_info.read_only
             THEN [ rw |-> rw,
                    ro |-> SourceObjList_remember_embedded_pointer(ro, src_info, ref),
                    ok |-> RememberAssertsHold(ro, src_info, ref) ]
             ELSE [ rw |-> SourceObjList_remember_embedded_pointer(rw, src_info, ref),
                    ro |-> ro,
                    ok |-> RememberAssertsHold(rw, src_info, ref) ]

\* The entry of a newly created Copy object once SourceObjList::append has run on it.
WithInterval(info, list) ==
  [info EXCEPT !.ptrmap_start = AppendInterval(list, info).start,
               !.ptrmap_end   = AppendInterval(list, info).end]

\* _src_obj_table.put_if_absent(src_obj, src_info, &created): the entry the
\* table holds for the key afterwards
\* a faulty variant: put, which replaces the entry of a key already present
put_replacing(tbl, key, value) == value

put_if_absent(tbl, key, value) == IF key \in DOMAIN tbl THEN tbl[key] ELSE value

\* faulty variants: the test of created, or that of should_copy, is left out
NeedsAppend_every_visit(created, src_info) == should_copy(src_info)

NeedsAppend_every_mode(created, src_info) == created

\* the condition under which gather_one_source_obj appends and asks to recurse
NeedsAppend(created, src_info) == created /\ should_copy(src_info)

\* gather_one_source_obj(ref, read_only) on table tbl and lists rw, ro, where
\* follow_mode is what get_follow_mode(ref) answers: the table and lists
\* afterwards, the value returned, and whether its assertions held.
\* a faulty variant: the field is remembered only on the first visit of its target
gather_one_with_mode_remember_if_created(tbl, rw, ro, ref, read_only, follow_mode) ==
  IF ref.obj = 0 \/ has_been_regenerated(ref.obj)
    THEN [table |-> tbl, rw |-> rw, ro |-> ro, result |-> FALSE, ok |-> TRUE]
  ELSE
    LET created  == ref.obj \notin DOMAIN tbl
        m        == IF created
                      THEN remember_embedded_pointer_in_enclosing_obj(tbl, rw, ro, ref)
                      ELSE [rw |-> rw, ro |-> ro, ok |-> TRUE]
        src_info == SourceObjInfo(ref, read_only, follow_mode)
        p        == put_if_absent(tbl, ref.obj, src_info)
        ok       == m.ok /\ (p.read_only = src_info.read_only)
    IN  IF NeedsAppend(created, src_info)
          THEN IF read_only
                 THEN [ table  |-> (ref.obj :> WithInterval(p, m.ro)) @@ tbl,
                        rw     |-> m.rw,
                        ro     |-> SourceObjList_append(m.ro, p),
                        result |-> TRUE, ok |-> ok ]
                 ELSE [ table  |-> (ref.obj :> WithInterval(p, m.rw)) @@ tbl,
                        rw     |-> SourceObjList_append(m.rw, p),
                        ro     |-> m.ro,
                        result |-> TRUE, ok |-> ok ]
          ELSE [ table  |-> (ref.obj :> p) @@ tbl,
                 rw |-> m.rw, ro |-> m.ro, result |-> FALSE, ok |-> ok ]

gather_one_with_mode(tbl, rw, ro, ref, read_only, follow_mode) ==
  IF ref.obj = 0 \/ has_been_regenerated(ref.obj)
    THEN [table |-> tbl, rw |-> rw, ro |-> ro, result |-> FALSE, ok |-> TRUE]
  ELSE
    LET m        == remember_embedded_pointer_in_enclosing_obj(tbl, rw, ro, ref)
        src_info == SourceObjInfo(ref, read_only, follow_mode)
        created  == ref.obj \notin DOMAIN tbl
        p        == put_if_absent(tbl, ref.obj, src_info)
        ok       == m.ok /\ (p.read_only = src_info.read_only)
    IN  IF NeedsAppend(created, src_info)
          THEN IF read_only
                 THEN [ table  |-> (ref.obj :> WithInterval(p, m.ro)) @@ tbl,
                        rw     |-> m.rw,
                        ro     |-> SourceObjList_append(m.ro, p),
                        result |-> TRUE, ok |-> ok ]
                 ELSE [ table  |-> (ref.obj :> WithInterval(p, m.rw)) @@ tbl,
                        rw     |-> SourceObjList_append(m.rw, p),
                        ro     |-> m.ro,
                        result |-> TRUE, ok |-> ok ]
          ELSE [ table  |-> (ref.obj :> p) @@ tbl,
                 rw |-> m.rw, ro |-> m.ro, result |-> FALSE, ok |-> ok ]

gather_one_source_obj(tbl, rw, ro, ref, read_only) ==
  gather_one_with_mode(tbl, rw, ro, ref, read_only,
                       IF ref.obj = 0 THEN set_to_null
                       ELSE get_follow_mode(RefDesc(ref), DynamicDumpSharedSpaces))

\* ------------------------------------------------------------ first gathering pass
Range(f) == { f[i] : i \in DOMAIN f }

Perms(S) ==
  { s \in [1..Cardinality(S) -> S] : \A i, j \in DOMAIN s : i # j => s[i] # s[j] }

PtrTargets(o) == { graph[o].tgt[i] : i \in PtrSlots(graph[o].d.msotype) } \ {0}

\* The objects a closure reaches from the set S when it recurses into the
\* objects of S that are to be copied.
RECURSIVE Reach(_)
Reach(S) ==
  LET S2 == S \cup UNION { PtrTargets(o) : o \in { x \in S : FollowModeOf(x) = make_a_copy } }
  IN  IF S2 = S THEN S ELSE Reach(S2)

\* The objects for which gather_klass_and_symbol returns true.
Gathered == { o \in Reach(Range(roots)) : FollowModeOf(o) = make_a_copy }

\* The orders in which a UniqueMetaspaceClosure can meet them: an object is met
\* as a root or through a field of an object met before it.
GatherOrders ==
  { s \in Perms(Gathered) :
      \A i \in DOMAIN s :
        s[i] \in Range(roots) \/ \E j \in 1..(i - 1) : s[i] \in PtrTargets(s[j]) }

IsGatheredKlass(o) ==
  graph[o].d.msotype = "Class" /\ ~is_excluded(graph[o].d, DynamicDumpSharedSpaces)

IsGatheredSymbol(o) == graph[o].d.msotype = "Symbol"

EstimateOf_no_class_word(o) ==
  align_up(SizeInWords(graph[o].d.msotype) * WordSize, ObjAlign)

\* what gather_klass_and_symbol adds to _estimated_metaspaceobj_bytes for one object
EstimateOf(o) ==
  (IF graph[o].d.msotype = "Class" THEN align_up(WordSize, ObjAlign) ELSE 0)
  + align_up(SizeInWords(graph[o].d.msotype) * WordSize, ObjAlign)

RECURSIVE SumEstimates(_)
SumEstimates(S) ==
  IF S = {} THEN 0
  ELSE LET x == CHOOSE y \in S : TRUE IN EstimateOf(x) + SumEstimates(S \ {x})

\* compare_klass_by_name orders classes by the address of their name Symbol,
\* compare_symbols_by_address orders symbols by their own address.
KlassNameKey(o) == IF graph[o].d.msotype = "Class" THEN SrcWord(o, 2) ELSE 0

\* The results GrowableArray::sort may leave for a list: every arrangement in
\* which the keys do not descend.
SortedSeqs(seq, key) ==
  { s \in Perms(Range(seq)) : \A i, j \in DOMAIN s : i < j => key[s[i]] <= key[s[j]] }

\* a faulty variant: the classes are pushed before the symbols
SortedRootPushes_klasses_first(syms, ks) == ks \o syms \o roots

\* iterate_sorted_roots: the pushes it makes, in order
SortedRootPushes(syms, ks) == syms \o ks \o roots

\* ------------------------------------------------------------ address spaces
\* addresses are AddrBits wide
AddrBits == 14
AddrSpace == 2 ^ AddrBits

\* where the operating system may place the output buffer
BufferBottoms == { 1024 * WordSize }

\* the values of SharedBaseAddress tried: the address the static archive is
\* mapped at in this process, an address inside the output buffer, and one too
\* close to the top of the address space
RequestedBases == { MappedStaticBottom, 1024 * WordSize + CoreRegionAlignment,
                    AddrSpace - CoreRegionAlignment }

NoRegion == [base |-> 0, top |-> 0, end |-> 0]

\* the container before write_archive: no call made, an empty header in
\* memory, nothing in the file
NoMapInfo ==
  [ at     |-> 0,
    ops    |-> <<>>,
    header |-> [regions |-> <<>>, requested_base |-> 0, crc |-> 0],
    file   |-> <<>>,
    open   |-> TRUE ]

NoAddr ==
  [ buffer_bottom |-> 0, buffer_size |-> 0,
    requested_static_archive_bottom |-> 0, requested_static_archive_top |-> 0,
    requested_dynamic_archive_bottom |-> 0, requested_dynamic_archive_top |-> 0,
    mapped_static_archive_bottom |-> 0, mapped_static_archive_top |-> 0,
    buffer_to_requested_delta |-> 0 ]

\* ------------------------------------------------------------ the inputs of a build
D_Klass         == Desc("Class", FALSE, "instance", FALSE, FALSE)
D_ExcludedKlass == Desc("Class", FALSE, "instance", FALSE, TRUE)
D_ConstMethod   == Desc("ConstMethod", FALSE, "instance", FALSE, FALSE)
D_Symbol        == Desc("Symbol", FALSE, "instance", FALSE, FALSE)
D_MethodData    == Desc("MethodData", FALSE, "instance", FALSE, FALSE)
D_SharedKlass   == Desc("Class", TRUE, "instance", FALSE, TRUE)
\* a class that has been regenerated as object r; the class it was is excluded
\* from the dump by the code that regenerated it
D_RegeneratedKlass(r) == [D_ExcludedKlass EXCEPT !.regen = r]

\* the kinds of object a graph is made of; only a dynamic dump sees objects of
\* the mapped static archive
MenuDescs(dyn) ==
  {D_Klass, D_ExcludedKlass, D_ConstMethod, D_Symbol, D_MethodData}
  \cup (IF dyn THEN {D_SharedKlass} ELSE {})

\* An object the builder does not copy is never read or walked by it: its
\* fields are left null.
TgtChoices(d, dyn) ==
  LET n == Len(Layout(d.msotype))
  IN  IF get_follow_mode(d, dyn) = make_a_copy
        THEN { t \in [1..n -> 0..NumObjs] : \A i \in 1..n : t[i] # 0 => i \in PtrSlots(d.msotype) }
        ELSE { [i \in 1..n |-> 0] }

ObjChoices(dyn) ==
  UNION { { [d |-> d, tgt |-> t] : t \in TgtChoices(d, dyn) } : d \in MenuDescs(dyn) }

\* An object the root does not lead to is no part of the build: it is given one
\* fixed form.
Unreached == [d |-> D_Symbol, tgt |-> <<0>>]

\* the name of a class is a Symbol (or is not set)
NamesAreSymbols(g) ==
  \A o \in Objs : \A i \in 1..Len(Layout(g[o].d.msotype)) :
    (Layout(g[o].d.msotype)[i] = "name" /\ g[o].tgt[i] # 0)
      => g[g[o].tgt[i]].d.msotype = "Symbol"

\* iterate_roots() pushes one root, object 1, from which every object of the
\* graph is reached
RootChoices == { <<1>> }

\* the builder whose build is followed
TheBuilder == 1

\* the fields of a builder as its constructor leaves them
FieldsAsConstructed ==
  /\ fatal = "none"
  /\ klasses = <<>>
  /\ symbols = <<>>
  /\ estimated_bytes = 0
  /\ src_obj_table = <<>>
  /\ rw_src_objs = EmptySourceObjList
  /\ ro_src_objs = EmptySourceObjList
  /\ root_queue = <<>>
  /\ pending = {}
  /\ visits = [calls |-> <<>>, recursed |-> <<>>]
  /\ addr = NoAddr
  /\ rw_region = NoRegion
  /\ ro_region = NoRegion
  /\ buf = <<>>
  /\ ptrmap = [bits |-> {}, size |-> 0, compacted |-> FALSE]
  /\ buffered_to_src_table = <<>>
  /\ archived_vtable = 0
  /\ last_verified_top = 0
  /\ other_region_used_bytes = 0
  /\ mapinfo = NoMapInfo
  \* and no builder has called increment_refcount or decrement_refcount yet
  /\ refcounts = [o \in Objs |-> [inc |-> 0, dec |-> 0]]

\* the process once the constructor of the one builder has returned
Constructed ==
  /\ FieldsAsConstructed
  /\ current = TheBuilder
  /\ live = {TheBuilder}
  /\ constructions = [b \in Builders |-> IF b = TheBuilder THEN 1 ELSE 0]

Init ==
  /\ DynamicDumpSharedSpaces \in BOOLEAN
  /\ roots \in RootChoices
  /\ graph \in [Objs -> ObjChoices(DynamicDumpSharedSpaces)]
  /\ NamesAreSymbols(graph)
  /\ \A o \in Objs \ Reach(Range(roots)) : graph[o] = Unreached
  /\ pc = "gather1"
  /\ Constructed
  /\ fm_ref = D_Klass
  /\ fm_result = "unset"

\* ------------------------------------------------------------ gather_source_objs
\* gather_klasses_and_symbols, up to the pushes of iterate_sorted_roots
\* sym->increment_refcount() for each Symbol of syms, in order, as
\* gather_klass_and_symbol calls it before it appends the Symbol to _symbols
RECURSIVE increment_refcounts(_, _)
increment_refcounts(rc, syms) ==
  IF syms = <<>> THEN rc
  ELSE increment_refcounts([rc EXCEPT ![Head(syms)].inc = @ + 1], Tail(syms))

\* a faulty variant: the loop of the destructor leaves out the last element
RECURSIVE decrement_refcounts_but_last(_, _)
decrement_refcounts_but_last(rc, syms) ==
  IF Len(syms) <= 1 THEN rc
  ELSE decrement_refcounts_but_last([rc EXCEPT ![Head(syms)].dec = @ + 1], Tail(syms))

\* ~ArchiveBuilder: _symbols->at(i)->decrement_refcount() for each index i
RECURSIVE decrement_refcounts(_, _)
decrement_refcounts(rc, syms) ==
  IF syms = <<>> THEN rc
  ELSE decrement_refcounts([rc EXCEPT ![Head(syms)].dec = @ + 1], Tail(syms))

GatherKlassesAndSymbols ==
  /\ pc = "gather1" /\ fatal = "none"
  /\ \E order \in GatherOrders :
       LET ks0 == SelectSeq(order, IsGatheredKlass)
           ss0 == SelectSeq(order, IsGatheredSymbol)
       IN  \E ks \in (IF DumpSharedSpaces THEN SortedSeqs(ks0, [o \in Objs |-> KlassNameKey(o)]) ELSE {ks0}),
              ss \in (IF DumpSharedSpaces THEN SortedSeqs(ss0, [o \in Objs |-> SrcAddr(o)]) ELSE {ss0}) :
             /\ klasses' = ks
             /\ symbols' = ss
             /\ refcounts' = increment_refcounts(refcounts, ss0)
             /\ root_queue' = SortedRootPushes(ss, ks)
  /\ estimated_bytes' = SumEstimates(Gathered)
                          + (IF DumpSharedSpaces THEN StaticExtraEstimate ELSE 0)
  /\ pc' = "gather2"
  /\ UNCHANGED <<inputVars, fatal, src_obj_table, rw_src_objs, ro_src_objs, pending,
                 visits, bufVars, fmVars, singletonVars, verifyVars, writeVars>>

Bump(f, a) == IF a \in DOMAIN f THEN [f EXCEPT ![a] = @ + 1] ELSE (a :> 1) @@ f

\* The references metaspace_pointers_do reports for object o: its non-null
\* pointer fields.
EmbeddedRefs(o) ==
  { <<o, i>> : i \in { j \in PtrSlots(graph[o].d.msotype) : graph[o].tgt[j] # 0 } }

\* One do_ref call of GatherSortedSourceObjs for the reference ref.
DoRef(ref) ==
  LET r == gather_one_source_obj(src_obj_table, rw_src_objs, ro_src_objs, ref,
                                 IF ref.obj = 0 THEN FALSE ELSE RefReadOnly(ref))
  IN  /\ src_obj_table' = r.table
      /\ rw_src_objs' = r.rw
      /\ ro_src_objs' = r.ro
      /\ fatal' = IF r.ok THEN "none" ELSE "assert"
      /\ visits' = IF ref.obj = 0 THEN visits
                   ELSE [ calls    |-> Bump(visits.calls, ref.obj),
                          recursed |-> IF r.result THEN Bump(visits.recursed, ref.obj)
                                       ELSE visits.recursed ]
      /\ pending' = (IF ref.enclosing = 0 THEN pending
                      ELSE pending \ {<<ObjAt(ref.enclosing),
                                        ((ref.field_addr - ref.enclosing) \div WordSize) + 1>>})
                     \cup (IF r.result THEN EmbeddedRefs(ObjAt(ref.obj)) ELSE {})

\* iterate_sorted_roots pushes the next root; the closure has by then reported
\* every field of the objects the push before led it to recurse into
PushRoot ==
  /\ pc = "gather2" /\ fatal = "none"
  /\ root_queue # <<>>
  /\ pending = {}
  /\ DoRef(RootRef(Head(root_queue)))
  /\ root_queue' = Tail(root_queue)
  /\ UNCHANGED <<inputVars, pc, klasses, symbols, estimated_bytes, bufVars, fmVars, singletonVars, verifyVars, writeVars, symbolVars>>

\* the closure reports the next field of an object it recurses into; the fields
\* of one object are reported in the order of its metaspace_pointers_do
WalkField ==
  /\ pc = "gather2" /\ fatal = "none"
  /\ \E e \in pending :
       /\ \A f \in pending : f[1] = e[1] => e[2] <= f[2]
       /\ DoRef(FieldRef(e[1], e[2]))
  /\ UNCHANGED <<inputVars, pc, klasses, symbols, estimated_bytes, root_queue, bufVars, fmVars, singletonVars, verifyVars, writeVars, symbolVars>>

\* doit.finish() returns: nothing is left to push or to report
FinishGather ==
  /\ pc = "gather2" /\ fatal = "none"
  /\ root_queue = <<>> /\ pending = {}
  /\ pc' = "reserve"
  /\ UNCHANGED <<inputVars, fatal, gatherVars, bufVars, fmVars, singletonVars, verifyVars, writeVars, symbolVars>>

\* ------------------------------------------------------------ DumpRegion
\* DumpRegion::allocate(n): the address returned, the region afterwards, and
\* whether the reserved span had room (if not: report_out_of_space)
DumpRegion_allocate(region, n) ==
  LET p      == align_up(region.top, ObjAlign)
      newtop == p + align_up(n, ObjAlign)
  IN  [ ok     |-> newtop <= region.end,
        p      |-> p,
        region |-> IF newtop <= region.end THEN [region EXCEPT !.top = newtop] ELSE region ]

\* DumpRegion::pack(): the end of a region is its top, aligned up
DumpRegion_pack(region) == [region EXCEPT !.end = align_up(region.top, CoreRegionAlignment)]

\* ------------------------------------------------------------ the buffer's words
WordIdx(a) == (a - addr.buffer_bottom) \div WordSize

\* the words [p, newtop) zeroed (DumpRegion::allocate clears what it hands out)
ZeroFilled(b, p, newtop) ==
  [ i \in WordIdx(p)..(WordIdx(newtop) - 1) |-> 0 ] @@ b

\* memcpy(dest, src, bytes) from object o of the live process
CopiedIn(b, dest, o, bytes) ==
  [ i \in WordIdx(dest)..(WordIdx(dest) + (bytes \div WordSize) - 1) |->
      SrcWord(o, i - WordIdx(dest) + 1) ] @@ b

\* ------------------------------------------------------------ ArchivePtrMarker
ArchivePtrMarker_mark_pointer(pm, ptr_loc) ==
  LET idx == WordIdx(ptr_loc)
  IN  [pm EXCEPT !.bits = @ \cup {idx},
                 !.size = IF @ <= idx THEN (idx + 1) * 2 ELSE @]

ArchivePtrMarker_clear_bit(pm, idx) == [pm EXCEPT !.bits = @ \ {idx}]

ArchivePtrMarker_compact(pm, max_non_null_offset) ==
  [pm EXCEPT !.size = max_non_null_offset + 1, !.compacted = TRUE]

\* ------------------------------------------------------------ reserve_buffer
\* (the symbol table and the dictionaries of the builds modelled are empty:
\* _estimated_hashtable_bytes is 0)
estimate_archive_size ==
  align_up(estimated_bytes + TotalDumpRegions * CoreRegionAlignment, CoreRegionAlignment)

\* my_archive_requested_bottom for SharedBaseAddress base
MyArchiveRequestedBottom(base) ==
  IF DumpSharedSpaces THEN base
  ELSE align_up((base + (MappedStaticTop - MappedStaticBottom)) % AddrSpace,
                CoreRegionAlignment) % AddrSpace

\* the placement check of reserve_buffer: TRUE when the build must stop
\* a faulty variant: the requested top is not compared with the base
PlacementFails_bottom_only(base, buffer_size) ==
  MyArchiveRequestedBottom(base) < base

PlacementFails(base, buffer_size) ==
  LET my_bottom == MyArchiveRequestedBottom(base)
      my_top    == (my_bottom + buffer_size) % AddrSpace
  IN  my_bottom < base \/ my_top <= base

\* reserve_buffer when the buffer it reserves has the given size and
\* MetaspaceShared::requested_base_address() answers one of the given bases
ReserveBufferSized(size, bases) ==
  /\ pc = "reserve" /\ fatal = "none"
  /\ \E bottom \in BufferBottoms, base \in bases :
       LET rw0  == [base |-> bottom, top |-> bottom, end |-> bottom + size]
           pad  == IF DumpSharedSpaces
                     THEN DumpRegion_allocate(rw0, BottomPadBytes)
                     ELSE [ok |-> TRUE, p |-> bottom, region |-> rw0]
       IN  /\ last_verified_top' = bottom
           /\ other_region_used_bytes' = 0
           /\ addr' =
                [ buffer_bottom |-> bottom,
                  buffer_size   |-> size,
                  requested_static_archive_bottom  |-> base,
                  requested_static_archive_top     |->
                    IF DumpSharedSpaces THEN 0
                    ELSE (base + (MappedStaticTop - MappedStaticBottom)) % AddrSpace,
                  requested_dynamic_archive_bottom |->
                    IF DumpSharedSpaces THEN 0 ELSE MyArchiveRequestedBottom(base),
                  requested_dynamic_archive_top    |-> 0,
                  mapped_static_archive_bottom |-> IF DumpSharedSpaces THEN 0 ELSE MappedStaticBottom,
                  mapped_static_archive_top    |-> IF DumpSharedSpaces THEN 0 ELSE MappedStaticTop,
                  buffer_to_requested_delta    |-> MyArchiveRequestedBottom(base) - bottom ]
           /\ IF PlacementFails(base, size)
                THEN /\ fatal' = "placement"
                     /\ rw_region' = rw0
                     /\ buf' = buf
                ELSE /\ fatal' = IF pad.ok THEN "none" ELSE "out_of_space"
                     /\ rw_region' = pad.region
                     /\ buf' = IF DumpSharedSpaces /\ pad.ok
                                 THEN [ i \in 0..((BottomPadBytes \div WordSize) - 1) |-> 0 ]
                                 ELSE buf
  /\ ptrmap' = [bits |-> {}, size |-> 0, compacted |-> FALSE]
  /\ pc' = "vtables"
  /\ UNCHANGED <<inputVars, gatherVars, ro_region, buffered_to_src_table, archived_vtable,
                 fmVars, singletonVars, writeVars, symbolVars>>

\* reserve_buffer: the buffer has the size estimate_archive_size answers
ReserveBuffer == ReserveBufferSized(estimate_archive_size, RequestedBases)

\* CppVtables::dumptime_init: a static dump writes the archived vtables into
\* the rw region; a dynamic dump uses those of the mapped static archive.
DumptimeInitVtables ==
  /\ pc = "vtables" /\ fatal = "none"
  /\ IF DumpSharedSpaces
       THEN LET a == DumpRegion_allocate(rw_region, WordSize)
            IN  /\ rw_region' = a.region
                /\ buf' = ZeroFilled(buf, a.p, a.region.top)
                /\ archived_vtable' = a.p
                /\ fatal' = IF a.ok THEN "none" ELSE "out_of_space"
       ELSE /\ archived_vtable' = MappedStaticBottom + WordSize
            /\ UNCHANGED <<rw_region, buf, fatal>>
  /\ pc' = "dump_rw"
  /\ UNCHANGED <<inputVars, gatherVars, addr, ro_region, ptrmap, buffered_to_src_table, fmVars, singletonVars, verifyVars, writeVars, symbolVars>>

\* ------------------------------------------------------------ shallow copies
\* CppVtables::get_archived_vtable(msotype, dest): null for the kinds without a vtable
\* a faulty variant: a vtable pointer is written into the copy of every kind
get_archived_vtable_every_type(msotype) == archived_vtable

\* a faulty variant: no kind has an archived vtable
get_archived_vtable_of_no_type(msotype) == 0

get_archived_vtable(msotype) == IF msotype = "Class" THEN archived_vtable ELSE 0

\* report_out_of_space, which DumpRegion::allocate calls when the reserved span
\* has no room: the messages, then MetaspaceShared::unrecoverable_writing_error()
\* a faulty variant: the messages are printed and the build goes on
report_out_of_space_and_go_on(st) == st

report_out_of_space(st) == [st EXCEPT !.fatal = "out_of_space"]

\* a faulty variant: the reverse table is keyed by the start of the
\* allocation, which for an instance class is the slot in front of the copy
make_shallow_copy_keyed_by_oldtop(st, src) ==
  LET src_info == st.table[src]
      o        == ObjAt(src)
      bytes    == src_info.size_in_bytes
      pre      == IF src_info.msotype = "Class" /\ graph[o].d.klass_kind = "instance"
                    THEN DumpRegion_allocate(st.region, WordSize)
                    ELSE [ok |-> TRUE, p |-> st.region.top, region |-> st.region]
      a        == DumpRegion_allocate(pre.region, bytes)
      dest     == a.p
      copied   == CopiedIn(ZeroFilled(st.buf, pre.p, a.region.top), dest, o, bytes)
      vt       == get_archived_vtable(src_info.msotype)
  IN  IF ~pre.ok \/ ~a.ok
        THEN report_out_of_space(st)
      ELSE
        [ region |-> a.region,
          buf    |-> IF vt # 0 THEN (WordIdx(dest) :> vt) @@ copied ELSE copied,
          table  |-> [st.table EXCEPT ![src].buffered_addr = dest],
          b2s    |-> (pre.p :> src) @@ st.b2s,
          pm     |-> IF vt # 0 THEN ArchivePtrMarker_mark_pointer(st.pm, dest) ELSE st.pm,
          fatal  |-> st.fatal ]

\* make_shallow_copy(dump_region, src_info) on the build state
\*   st = [region, buf, table, b2s, pm, fatal]
make_shallow_copy(st, src) ==
  LET src_info == st.table[src]
      o        == ObjAt(src)
      bytes    == src_info.size_in_bytes
      pre      == IF src_info.msotype = "Class" /\ graph[o].d.klass_kind = "instance"
                    THEN DumpRegion_allocate(st.region, WordSize)
                    ELSE [ok |-> TRUE, p |-> st.region.top, region |-> st.region]
      a        == DumpRegion_allocate(pre.region, bytes)
      dest     == a.p
      copied   == CopiedIn(ZeroFilled(st.buf, pre.p, a.region.top), dest, o, bytes)
      vt       == get_archived_vtable(src_info.msotype)
  IN  IF ~pre.ok \/ ~a.ok
        THEN report_out_of_space(st)
      ELSE IF dest \in DOMAIN st.b2s
        THEN [st EXCEPT !.fatal = "assert"]
      ELSE
        [ region |-> a.region,
          buf    |-> IF vt # 0 THEN (WordIdx(dest) :> vt) @@ copied ELSE copied,
          table  |-> [st.table EXCEPT ![src].buffered_addr = dest],
          b2s    |-> (dest :> src) @@ st.b2s,
          pm     |-> IF vt # 0 THEN ArchivePtrMarker_mark_pointer(st.pm, dest) ELSE st.pm,
          fatal  |-> st.fatal ]

\* a faulty variant: the objects from the i-th on are copied last to first
RECURSIVE make_shallow_copies_last_first(_, _, _)
make_shallow_copies_last_first(st, objs, i) ==
  IF i > Len(objs) \/ st.fatal # "none" THEN st
  ELSE LET rest == make_shallow_copies_last_first(st, objs, i + 1)
       IN  IF rest.fatal # "none" THEN rest ELSE make_shallow_copy(rest, objs[i])

\* make_shallow_copies: the objects of a list from the i-th on, in list order
RECURSIVE make_shallow_copies(_, _, _)
make_shallow_copies(st, objs, i) ==
  IF i > Len(objs) \/ st.fatal # "none" THEN st
  ELSE make_shallow_copies(make_shallow_copy(st, objs[i]), objs, i + 1)

CopyState(region) ==
  [ region |-> region, buf |-> buf, table |-> src_obj_table,
    b2s |-> buffered_to_src_table, pm |-> ptrmap, fatal |-> "none" ]

\* start_dump_space(next): pack the current region and open the next one above it
\* a faulty variant: the bytes used in the region that is left are not added
start_dump_space_bytes_lost(cur, reserved_end) ==
  LET packed == DumpRegion_pack(cur)
  IN  [ cur  |-> packed,
        next |-> [base |-> packed.end, top |-> packed.end, end |-> reserved_end],
        other_region_used_bytes |-> other_region_used_bytes,
        last_verified_top       |-> packed.end ]

start_dump_space(cur, reserved_end) ==
  LET packed == DumpRegion_pack(cur)
  IN  [ cur  |-> packed,
        next |-> [base |-> packed.end, top |-> packed.end, end |-> reserved_end],
        other_region_used_bytes |-> other_region_used_bytes + (cur.top - last_verified_top),
        last_verified_top       |-> packed.end ]

\* the SourceObjInfo constructed for a regenerated object from the entry p of
\* its regenerated version
RegeneratedSourceObjInfo(src, p) ==
  [ source_addr   |-> src,
    follow_mode   |-> p.follow_mode,
    read_only     |-> FALSE,
    msotype       |-> p.msotype,
    size_in_bytes |-> 0,
    ptrmap_start  |-> 0,
    ptrmap_end    |-> 0,
    buffered_addr |-> p.buffered_addr ]

\* a faulty variant: the entry is made as gather_one_source_obj makes one, with
\* no buffered address yet
record_regenerated_object_unset(tbl, orig_src_obj, regen_src_obj) ==
  IF regen_src_obj \notin DOMAIN tbl \/ orig_src_obj \in DOMAIN tbl
    THEN [table |-> tbl, ok |-> FALSE]
  ELSE [ table |-> (orig_src_obj :>
                      [RegeneratedSourceObjInfo(orig_src_obj, tbl[regen_src_obj])
                         EXCEPT !.buffered_addr = 0]) @@ tbl,
         ok |-> TRUE ]

\* record_regenerated_object(orig_src_obj, regen_src_obj) on table tbl: the
\* table afterwards and whether its two assertions held
record_regenerated_object(tbl, orig_src_obj, regen_src_obj) ==
  IF regen_src_obj \notin DOMAIN tbl \/ orig_src_obj \in DOMAIN tbl
    THEN [table |-> tbl, ok |-> FALSE]
  ELSE [ table |-> (orig_src_obj :>
                      RegeneratedSourceObjInfo(orig_src_obj, tbl[regen_src_obj])) @@ tbl,
         ok |-> TRUE ]

\* the objects that have been regenerated
RegeneratedObjs == { o \in Objs : graph[o].d.regen # 0 }

\* RegeneratedClasses::record_regenerated_objects(): record_regenerated_object
\* for each of the objects S, up to the first failed assertion
RECURSIVE record_regenerated_objects(_, _)
record_regenerated_objects(r, S) ==
  IF S = {} \/ ~r.ok THEN r
  ELSE LET o == CHOOSE x \in S : \A y \in S : x <= y
       IN  record_regenerated_objects(
             record_regenerated_object(r.table, SrcAddr(o), SrcAddr(graph[o].d.regen)),
             S \ {o})

DumpRwMetadata ==
  /\ pc = "dump_rw" /\ fatal = "none"
  /\ LET st == make_shallow_copies(CopyState(rw_region), rw_src_objs.objs, 1)
     IN  /\ rw_region' = st.region
         /\ buf' = st.buf
         /\ src_obj_table' = st.table
         /\ buffered_to_src_table' = st.b2s
         /\ ptrmap' = st.pm
         /\ fatal' = st.fatal
  /\ pc' = "dump_ro"
  /\ UNCHANGED <<inputVars, klasses, symbols, estimated_bytes, rw_src_objs, ro_src_objs,
                 root_queue, pending, visits, addr, ro_region, archived_vtable, fmVars, singletonVars, verifyVars, writeVars, symbolVars>>

DumpRoMetadata ==
  /\ pc = "dump_ro" /\ fatal = "none"
  /\ LET sw == start_dump_space(rw_region, addr.buffer_bottom + addr.buffer_size)
         st == make_shallow_copies(CopyState(sw.next), ro_src_objs.objs, 1)
         rr == IF st.fatal # "none" THEN [table |-> st.table, ok |-> TRUE]
               ELSE record_regenerated_objects([table |-> st.table, ok |-> TRUE],
                                               RegeneratedObjs)
     IN  /\ rw_region' = sw.cur
         /\ ro_region' = st.region
         /\ buf' = st.buf
         /\ src_obj_table' = rr.table
         /\ buffered_to_src_table' = st.b2s
         /\ ptrmap' = st.pm
         /\ fatal' = IF st.fatal # "none" THEN st.fatal
                     ELSE IF rr.ok THEN "none" ELSE "assert"
         /\ other_region_used_bytes' = sw.other_region_used_bytes
         /\ last_verified_top' = sw.last_verified_top
  /\ pc' = "relocate_embedded"
  /\ UNCHANGED <<inputVars, klasses, symbols, estimated_bytes, rw_src_objs, ro_src_objs,
                 root_queue, pending, visits, addr, archived_vtable, fmVars, singletonVars, writeVars, symbolVars>>

\* ------------------------------------------------------------ embedded pointers
Min(S) == CHOOSE x \in S : \A y \in S : x <= y

\* a faulty variant: the address is handed back as it came
get_buffered_addr_untranslated(tbl, src_addr) == src_addr

\* get_source_addr on the reverse table b2s: the source address recorded for a
\* buffered address, 0 where its assertion (an entry exists) fails
get_source_addr(b2s, buffered_addr) ==
  IF buffered_addr \in DOMAIN b2s THEN b2s[buffered_addr] ELSE 0

\* a faulty variant: the answer of an entry whose object has not been copied
get_buffered_addr_unset(tbl, src_addr) == 0

\* get_buffered_addr on table tbl (the caller has checked that the entry exists)
get_buffered_addr(tbl, src_addr) == tbl[src_addr].buffered_addr

\* make_klasses_shareable: the buffered class k it obtains for each element of
\* _klasses, in order, and whether get_buffered_addr found an entry each time
make_klasses_shareable(tbl, ks) ==
  [ ok |-> \A i \in DOMAIN ks : SrcAddr(ks[i]) \in DOMAIN tbl,
    k  |-> [ i \in DOMAIN ks |->
               IF SrcAddr(ks[i]) \in DOMAIN tbl
                 THEN get_buffered_addr(tbl, SrcAddr(ks[i])) ELSE 0 ] ]

\* ArchivePtrMarker::set_and_mark_pointer on st = [buf, pm, fatal]
set_and_mark_pointer(st, ptr_loc, new_p) ==
  [st EXCEPT !.buf = (WordIdx(ptr_loc) :> new_p) @@ @,
             !.pm  = ArchivePtrMarker_mark_pointer(@, ptr_loc)]

\* RelocateEmbeddedPointers::do_bit. When the table has no entry for old_p,
\* get_buffered_addr ends the build: by its assertion in a debug build, by the
\* load through the null SourceObjInfo* in a product build.
\* a faulty variant: a field whose target has no entry is set to null
RelocateEmbeddedPointers_do_bit_null_if_missing(st, tbl, buffered_obj, start_idx, bit_offset) ==
  LET ptr_loc == buffered_obj + (bit_offset - start_idx) * WordSize
      old_p   == st.buf[WordIdx(ptr_loc)]
  IN  set_and_mark_pointer(st, ptr_loc,
        IF old_p \in DOMAIN tbl THEN get_buffered_addr(tbl, old_p) ELSE 0)

RelocateEmbeddedPointers_do_bit(st, tbl, buffered_obj, start_idx, bit_offset) ==
  LET field_offset == (bit_offset - start_idx) * WordSize
      ptr_loc      == buffered_obj + field_offset
      old_p        == st.buf[WordIdx(ptr_loc)]
  IN  IF old_p \notin DOMAIN tbl
        THEN [st EXCEPT !.fatal = "not_archived"]
        ELSE set_and_mark_pointer(st, ptr_loc, get_buffered_addr(tbl, old_p))

\* _ptrmap.iterate(&relocator, start, end): the set bits of [start, end), ascending
RECURSIVE IterateEmbedded(_, _, _, _, _)
IterateEmbedded(st, tbl, buffered_obj, start_idx, bits) ==
  IF bits = {} \/ st.fatal # "none" THEN st
  ELSE IterateEmbedded(
         RelocateEmbeddedPointers_do_bit(st, tbl, buffered_obj, start_idx, Min(bits)),
         tbl, buffered_obj, start_idx, bits \ {Min(bits)})

\* SourceObjList::relocate(i, builder)
SourceObjList_relocate(st, tbl, list, i) ==
  LET src_info == tbl[list.objs[i]]
      start    == src_info.ptrmap_start
      end      == src_info.ptrmap_end
  IN  IF ~should_copy(src_info)
        THEN [st EXCEPT !.fatal = "assert"]
        ELSE IterateEmbedded(st, tbl, src_info.buffered_addr, start,
                             { b \in list.ptrmap : start <= b /\ b < end })

\* a faulty variant: only the object at index i is relocated
relocate_embedded_pointers_one_object(st, tbl, list, i) ==
  IF i > Len(list.objs) \/ st.fatal # "none" THEN st
  ELSE SourceObjList_relocate(st, tbl, list, i)

RECURSIVE relocate_embedded_pointers(_, _, _, _)
relocate_embedded_pointers(st, tbl, list, i) ==
  IF i > Len(list.objs) \/ st.fatal # "none" THEN st
  ELSE relocate_embedded_pointers(SourceObjList_relocate(st, tbl, list, i), tbl, list, i + 1)

\* relocate_metaspaceobj_embedded_pointers
RelocateMetaspaceobjEmbeddedPointers ==
  /\ pc = "relocate_embedded" /\ fatal = "none"
  /\ LET st0 == [buf |-> buf, pm |-> ptrmap, fatal |-> "none"]
         st1 == relocate_embedded_pointers(st0, src_obj_table, rw_src_objs, 1)
         st2 == relocate_embedded_pointers(st1, src_obj_table, ro_src_objs, 1)
     IN  /\ buf' = st2.buf
         /\ ptrmap' = st2.pm
         /\ fatal' = st2.fatal
  /\ pc' = IF DynamicDumpSharedSpaces THEN "verify" ELSE "relocate_to_requested"
  /\ UNCHANGED <<inputVars, gatherVars, addr, rw_region, ro_region, buffered_to_src_table,
                 archived_vtable, fmVars, singletonVars, verifyVars, writeVars, symbolVars>>

\* ------------------------------------------------------------ verify_estimate_size
\* verify_estimate_size(estimate, which) for the current dump space cur:
\* the two fields afterwards, and whether its assertion held. (The
\* conversions int(estimate) and int(used) keep the values: the buffer of
\* the builds modelled is far below 2^31 bytes.)
verify_estimate_size(estimate, cur) ==
  LET bottom == last_verified_top
      top    == cur.top
      used   == (top - bottom) + other_region_used_bytes
      diff   == estimate - used
  IN  [ ok |-> diff >= 0, used |-> used,
        last_verified_top |-> top, other_region_used_bytes |-> 0 ]

\* The driver of a dynamic dump calls verify_estimate_size with
\* _estimated_metaspaceobj_bytes once the embedded pointers are relocated; the
\* ro region is then the current dump space.
VerifyEstimateSize ==
  /\ pc = "verify" /\ fatal = "none"
  /\ LET v == verify_estimate_size(estimated_bytes, ro_region)
     IN  /\ fatal' = IF v.ok THEN "none" ELSE "assert"
         /\ last_verified_top' = v.last_verified_top
         /\ other_region_used_bytes' = v.other_region_used_bytes
  /\ pc' = "relocate_to_requested"
  /\ UNCHANGED <<inputVars, gatherVars, bufVars, fmVars, singletonVars, writeVars, symbolVars>>

\* ------------------------------------------------------------ relocate_to_requested
\* the range predicates of the builder, on the address fields A
is_in_buffer_space(A, buffer_top, p) == A.buffer_bottom <= p /\ p < buffer_top

is_in_mapped_static_archive(A, p) ==
  A.mapped_static_archive_bottom <= p /\ p < A.mapped_static_archive_top

is_in_requested_static_archive(A, p) ==
  A.requested_static_archive_bottom <= p /\ p < A.requested_static_archive_top

\* to_requested(p): the address at which the byte at buffer address p will be
\* at run time
to_requested(A, p) == (p + A.buffer_to_requested_delta) % AddrSpace

\* buffer_to_offset(p): the offset and whether the assertions held
buffer_to_offset(A, buffer_top, p) ==
  LET requested_p == to_requested(A, p)
  IN  [ ok     |-> is_in_buffer_space(A, buffer_top, p)
                     /\ requested_p >= A.requested_static_archive_bottom,
        offset |-> (requested_p - A.requested_static_archive_bottom) % AddrSpace ]

\* a faulty variant: a source address is not translated to its buffered address
any_to_offset_untranslated(A, buffer_top, tbl, dyn, p) ==
  IF is_in_mapped_static_archive(A, p)
    THEN [ok |-> dyn, offset |-> p - A.mapped_static_archive_bottom]
  ELSE [ok |-> TRUE, offset |-> buffer_to_offset(A, buffer_top, p).offset]

\* any_to_offset(p) with the object table tbl, in a dynamic dump (dyn) or a
\* static one
any_to_offset(A, buffer_top, tbl, dyn, p) ==
  IF is_in_mapped_static_archive(A, p)
    THEN [ok |-> dyn, offset |-> p - A.mapped_static_archive_bottom]
  ELSE IF ~is_in_buffer_space(A, buffer_top, p)
    THEN IF p \in DOMAIN tbl
           THEN buffer_to_offset(A, buffer_top, get_buffered_addr(tbl, p))
           ELSE [ok |-> FALSE, offset |-> 0]
  ELSE buffer_to_offset(A, buffer_top, p)

\* _mapped_to_requested_static_archive_delta
MappedToRequestedDelta(A) ==
  A.requested_static_archive_bottom - A.mapped_static_archive_bottom

\* a faulty variant: the pointer is left in buffer coordinates
AddBufferDelta_omitted(A, v) == v

\* *p += _buffer_to_requested_delta
AddBufferDelta(A, v) == (v + A.buffer_to_requested_delta) % AddrSpace

AddMappedDelta_as_in_buffer(A, v) == (v + A.buffer_to_requested_delta) % AddrSpace

\* *p += _mapped_to_requested_static_archive_delta
AddMappedDelta(A, v) == (v + MappedToRequestedDelta(A)) % AddrSpace

\* a faulty variant: the bit of a null field is left as it is
ClearNullField_omitted(st, offset) == st

\* the branch of do_bit for a field that holds nullptr
ClearNullField(st, offset) == [st EXCEPT !.pm = ArchivePtrMarker_clear_bit(@, offset)]

\* RelocateBufferToRequested<STATIC_DUMP>::do_bit on st = [buf, pm, max, fatal]
RelocateBufferToRequested_do_bit(st, A, buffer_top, static_dump, offset) ==
  LET p  == A.buffer_bottom + offset * WordSize
      v  == st.buf[offset]
      vb == AddBufferDelta(A, v)
      vm == AddMappedDelta(A, v)
  IN  IF ~is_in_buffer_space(A, buffer_top, p)
        THEN [st EXCEPT !.fatal = "assert"]
      ELSE IF v = 0
        THEN ClearNullField(st, offset)
      ELSE IF static_dump
        THEN IF ~is_in_buffer_space(A, buffer_top, v)
               THEN [st EXCEPT !.fatal = "assert"]
             ELSE IF ~is_in_requested_static_archive(A, vb)
               THEN [st EXCEPT !.buf = (offset :> vb) @@ @, !.fatal = "assert"]
             ELSE [st EXCEPT !.buf = (offset :> vb) @@ @, !.max = offset]
      ELSE IF is_in_buffer_space(A, buffer_top, v)
        THEN [st EXCEPT !.buf = (offset :> vb) @@ @, !.max = offset]
      ELSE IF ~is_in_mapped_static_archive(A, v)
        THEN [st EXCEPT !.fatal = "assert"]
      ELSE IF ~is_in_requested_static_archive(A, vm)
        THEN [st EXCEPT !.buf = (offset :> vm) @@ @, !.fatal = "assert"]
      ELSE [st EXCEPT !.buf = (offset :> vm) @@ @, !.max = offset]

\* ArchivePtrMarker::ptrmap()->iterate(this): the set bits, ascending
RECURSIVE IterateRequested(_, _, _, _, _)
IterateRequested(st, A, buffer_top, static_dump, bits) ==
  IF bits = {} \/ st.fatal # "none" THEN st
  ELSE IterateRequested(
         RelocateBufferToRequested_do_bit(st, A, buffer_top, static_dump, Min(bits)),
         A, buffer_top, static_dump, bits \ {Min(bits)})

\* a faulty variant: the bits left set are iterated a second time
RelocateBufferToRequested_doit_twice(b, pm, A, buffer_top, static_dump) ==
  LET st0 == [buf |-> b, pm |-> pm, max |-> 0, fatal |-> "none"]
      st1 == IterateRequested(st0, A, buffer_top, static_dump, pm.bits)
      st2 == IterateRequested(st1, A, buffer_top, static_dump, st1.pm.bits)
  IN  IF st2.fatal # "none" THEN st2
      ELSE [st2 EXCEPT !.pm = ArchivePtrMarker_compact(@, st2.max)]

\* RelocateBufferToRequested::doit
RelocateBufferToRequested_doit(b, pm, A, buffer_top, static_dump) ==
  LET st0 == [buf |-> b, pm |-> pm, max |-> 0, fatal |-> "none"]
      st1 == IterateRequested(st0, A, buffer_top, static_dump, pm.bits)
  IN  IF st1.fatal # "none" THEN st1
      ELSE [st1 EXCEPT !.pm = ArchivePtrMarker_compact(@, st1.max)]

\* a faulty variant: the size of the archive is not added to its bottom
WithRequestedTop_empty(A, my_archive_size) ==
  IF DumpSharedSpaces
    THEN [A EXCEPT !.requested_static_archive_top = A.requested_static_archive_bottom]
    ELSE [A EXCEPT !.requested_dynamic_archive_top = A.requested_dynamic_archive_bottom]

\* the address fields once relocate_to_requested has set the requested top
WithRequestedTop(A, my_archive_size) ==
  IF DumpSharedSpaces
    THEN [A EXCEPT !.requested_static_archive_top =
                      (A.requested_static_archive_bottom + my_archive_size) % AddrSpace]
    ELSE [A EXCEPT !.requested_dynamic_archive_top =
                      (A.requested_dynamic_archive_bottom + my_archive_size) % AddrSpace]

RelocateToRequested ==
  /\ pc = "relocate_to_requested" /\ fatal = "none"
  /\ LET buffer_top == ro_region.top
         A  == WithRequestedTop(addr, buffer_top - addr.buffer_bottom)
         st == RelocateBufferToRequested_doit(buf, ptrmap, A, buffer_top, DumpSharedSpaces)
     IN  /\ ro_region' = DumpRegion_pack(ro_region)
         /\ addr' = A
         /\ buf' = st.buf
         /\ ptrmap' = st.pm
         /\ fatal' = st.fatal
  /\ pc' = "done"
  /\ UNCHANGED <<inputVars, gatherVars, rw_region, buffered_to_src_table,
                 archived_vtable, fmVars, singletonVars, verifyVars, writeVars, symbolVars>>

Next ==
  \/ GatherKlassesAndSymbols \/ PushRoot \/ WalkField \/ FinishGather
  \/ ReserveBuffer \/ DumptimeInitVtables \/ DumpRwMetadata \/ DumpRoMetadata
  \/ RelocateMetaspaceobjEmbeddedPointers \/ VerifyEstimateSize \/ RelocateToRequested

Spec == Init /\ [][Next]_vars

\* ------------------------------------------------------------ builds at the edge
\* The same build in the cases a regular build does not meet.
\* The space reserved for the buffer is smaller than the objects gathered need:
\* one or two regions' worth of bytes.
TightSizes == { CoreRegionAlignment, 2 * CoreRegionAlignment }

\* SharedBaseAddress lies anywhere in the address space: low, a few region
\* alignments below 2^AddrBits, and such that the top of the static archive is
\* one word below 2^AddrBits.
PlacementBases ==
  { MappedStaticBottom,
    AddrSpace - 8 * CoreRegionAlignment,
    AddrSpace - 6 * CoreRegionAlignment,
    AddrSpace - CoreRegionAlignment,
    AddrSpace - (MappedStaticSize + WordSize) }

ReserveAtTheEdge ==
  \/ \E size \in TightSizes : ReserveBufferSized(size, {MappedStaticBottom})
  \/ ReserveBufferSized(estimate_archive_size, PlacementBases)

\* Between the gathering and the copying, a pointer field of a source object
\* that is to be copied comes to refer to an object that was never gathered.
SourceFieldRedirected ==
  /\ pc = "reserve" /\ fatal = "none"
  /\ \E x \in Objs, u \in Objs :
       /\ SrcAddr(x) \in DOMAIN src_obj_table
       /\ should_copy(src_obj_table[SrcAddr(x)])
       /\ SrcAddr(u) \notin DOMAIN src_obj_table
       /\ \E i \in PtrSlots(graph[x].d.msotype) :
            /\ graph[x].tgt[i] # 0
            /\ SrcAddr(graph[x].tgt[i]) \in DOMAIN src_obj_table
            /\ graph' = [graph EXCEPT ![x].tgt[i] = u]
  /\ UNCHANGED <<DynamicDumpSharedSpaces, roots, pc, fatal, gatherVars, bufVars, fmVars,
                 singletonVars, verifyVars, writeVars, symbolVars>>

NextEdge ==
  \/ GatherKlassesAndSymbols \/ PushRoot \/ WalkField \/ FinishGather
  \/ SourceFieldRedirected \/ ReserveAtTheEdge
  \/ DumptimeInitVtables \/ DumpRwMetadata \/ DumpRoMetadata
  \/ RelocateMetaspaceobjEmbeddedPointers \/ VerifyEstimateSize \/ RelocateToRequested

SpecEdge == Init /\ [][NextEdge]_vars

\* ------------------------------------------------------------ write_archive
\* the sum of the values of a function
RECURSIVE SumOf(_)
SumOf(f) ==
  IF DOMAIN f = {} THEN 0
  ELSE LET a == CHOOSE x \in DOMAIN f : TRUE
       IN  f[a] + SumOf([x \in DOMAIN f \ {a} |-> f[x]])

\* FileMapInfo::compute_header_crc: a checksum of the header's contents other
\* than the checksum itself
compute_header_crc(h) ==
  (h.requested_base + 31 * Len(h.regions)
     + 7 * SumOf([i \in DOMAIN h.regions |-> i * h.regions[i].used])) % 251

\* what one call of write_archive does to the container: a region, the bitmap
\* or the heap region goes to the file and is recorded in the header; the
\* requested base and the checksum are stored in the header; write_header
\* puts the header in the file
FileMapInfo_call(mi, call, used, base) ==
  LET logged == [mi EXCEPT !.ops = Append(@, call)]
      segment(name) ==
        [logged EXCEPT !.file = Append(@, [segment |-> name, used |-> used]),
                       !.header.regions = Append(@, [name |-> name, used |-> used])]
  IN  CASE call = "write_region_rw"     -> segment("rw")
        [] call = "write_region_ro"     -> segment("ro")
        [] call = "write_bitmap_region" -> segment("bm")
        [] call = "write_heap_region"   -> segment("hp")
        [] call = "set_requested_base"  -> [logged EXCEPT !.header.requested_base = base]
        [] call = "set_header_crc"      ->
             [logged EXCEPT !.header.crc = compute_header_crc(mi.header)]
        [] call = "write_header"        ->
             [logged EXCEPT !.file = Append(@, [segment |-> "header", header |-> mi.header])]
        [] call = "close"               -> [logged EXCEPT !.open = FALSE]

WriteArchiveCalls_crc_before_base ==
  << "write_region_rw", "write_region_ro", "write_bitmap_region", "write_heap_region",
     "set_header_crc", "set_requested_base", "write_header", "close" >>

\* the calls write_archive makes on mapinfo, in the order of its statements
WriteArchiveCalls ==
  << "write_region_rw", "write_region_ro", "write_bitmap_region", "write_heap_region",
     "set_requested_base", "set_header_crc", "write_header", "close" >>

\* write_archive, one statement at a time; mapinfo.at counts the statements
\* done. write_heap_region is called only if heap_info->is_used().
WriteArchive ==
  /\ pc = "done" /\ fatal = "none"
  /\ mapinfo.at < Len(WriteArchiveCalls)
  /\ LET call == WriteArchiveCalls[mapinfo.at + 1]
         used == CASE call = "write_region_rw"     -> rw_region.top - rw_region.base
                   [] call = "write_region_ro"     -> ro_region.top - ro_region.base
                   [] call = "write_bitmap_region" -> ptrmap.size
                   [] OTHER                        -> WordSize
         done == [FileMapInfo_call(mapinfo, call, used, addr.requested_static_archive_bottom)
                    EXCEPT !.at = @ + 1]
     IN  \E heap_is_used \in BOOLEAN :
           mapinfo' = IF call = "write_heap_region" /\ ~heap_is_used
                        THEN [mapinfo EXCEPT !.at = @ + 1]
                        ELSE done
  /\ UNCHANGED <<inputVars, pc, fatal, gatherVars, bufVars, fmVars, singletonVars, verifyVars,
                 symbolVars>>

\* CDSMapLogger::log_metaspace_objects(region, src_objs): the log_data(base,
\* top, ...) calls it makes, in order: the gap in front of each object, from
\* the base of the object before it (the region's base for the first), then
\* the last object, then what lies behind it up to the region's end
log_metaspace_objects(region, list) ==
  LET n        == Len(list.objs)
      dest(i)  == src_obj_table[list.objs[i]].buffered_addr
      bytes(i) == src_obj_table[list.objs[i]].size_in_bytes
      last_obj_base(i) == IF i = 0 THEN region.base ELSE dest(i)
      last_obj_end(i)  == IF i = 0 THEN region.base ELSE dest(i) + bytes(i)
  IN  [ i \in 1..n |-> [base |-> last_obj_base(i - 1), top |-> dest(i)] ]
        \o << [base |-> last_obj_base(n), top |-> last_obj_end(n)] >>
        \o (IF last_obj_end(n) < region.end
              THEN << [base |-> last_obj_end(n), top |-> region.end] >>
              ELSE << >>)

NextWrite ==
  \/ GatherKlassesAndSymbols \/ PushRoot \/ WalkField \/ FinishGather
  \/ ReserveBuffer \/ DumptimeInitVtables \/ DumpRwMetadata \/ DumpRoMetadata
  \/ RelocateMetaspaceobjEmbeddedPointers \/ VerifyEstimateSize \/ RelocateToRequested
  \/ WriteArchive

SpecWrite == Init /\ [][NextWrite]_vars

\* ------------------------------------------------------------ array classes
\* The builds of Init archive instance classes only. These archive array
\* classes too: is_instance_klass() answers false for them and
\* make_shallow_copy allocates no slot in front of their copy.
InitWithArrayKlasses ==
  /\ DynamicDumpSharedSpaces \in BOOLEAN
  /\ roots \in RootChoices
  /\ graph \in [Objs ->
       UNION { { [d |-> d, tgt |-> t] : t \in TgtChoices(d, DynamicDumpSharedSpaces) } :
               d \in {D_Klass, Desc("Class", FALSE, "typeArray", FALSE, FALSE), D_Symbol} }]
  /\ NamesAreSymbols(graph)
  /\ \A o \in Objs \ Reach(Range(roots)) : graph[o] = Unreached
  /\ pc = "gather1"
  /\ Constructed
  /\ fm_ref = D_Klass
  /\ fm_result = "unset"

SpecArrayKlasses == InitWithArrayKlasses /\ [][Next]_vars

\* ------------------------------------------------------------ regenerated classes
\* Builds in which classes have been regenerated: the class that was is
\* excluded, its regenerated version is a class of the graph that is archived.
InitRegenerated ==
  /\ DynamicDumpSharedSpaces \in BOOLEAN
  /\ roots \in RootChoices
  /\ graph \in [Objs ->
       UNION { { [d |-> d, tgt |-> t] : t \in TgtChoices(d, DynamicDumpSharedSpaces) } :
               d \in {D_Klass, D_Symbol} \cup { D_RegeneratedKlass(r) : r \in Objs } }]
  /\ NamesAreSymbols(graph)
  /\ \A o \in Objs \ Reach(Range(roots)) : graph[o] = Unreached
  /\ \A o \in Objs : graph[o].d.regen # 0 => graph[graph[o].d.regen].d = D_Klass
  /\ pc = "gather1"
  /\ Constructed
  /\ fm_ref = D_Klass
  /\ fm_result = "unset"

SpecRegenerated == InitRegenerated /\ [][Next]_vars

\* gather_source_objs runs in one thread from its call to its return: a step of
\* it that can be taken is taken.
GatherStep == GatherKlassesAndSymbols \/ PushRoot \/ WalkField \/ FinishGather

SpecFair == Spec /\ WF_vars(GatherStep)

\* ------------------------------------------------------------ the builders of a process
\* No builder has been constructed yet; the builds themselves are not followed.
InitSingleton ==
  /\ DynamicDumpSharedSpaces = FALSE
  /\ roots = <<1>>
  /\ graph = [o \in Objs |-> Unreached]
  /\ pc = "idle"
  /\ FieldsAsConstructed
  /\ fm_ref = D_Klass
  /\ fm_result = "unset"
  /\ current = 0
  /\ live = {}
  /\ constructions = [b \in Builders |-> 0]

\* ArchiveBuilder::ArchiveBuilder() runs for a builder that is not alive
\* a faulty variant: _current is set without the assertion
ConstructBuilder_unchecked ==
  /\ pc = "idle" /\ fatal = "none"
  /\ \E b \in Builders \ live :
       /\ constructions[b] < MaxLives
       /\ current' = b
       /\ live' = live \cup {b}
       /\ constructions' = [constructions EXCEPT ![b] = @ + 1]
  /\ UNCHANGED <<inputVars, pc, fatal, gatherVars, bufVars, fmVars, verifyVars, writeVars, symbolVars>>

ConstructBuilder ==
  /\ pc = "idle" /\ fatal = "none"
  /\ \E b \in Builders \ live :
       /\ constructions[b] < MaxLives
       /\ IF current = 0
            THEN /\ current' = b
                 /\ live' = live \cup {b}
                 /\ constructions' = [constructions EXCEPT ![b] = @ + 1]
                 /\ fatal' = "none"
            ELSE /\ fatal' = "assert"
                 /\ UNCHANGED <<current, live, constructions, writeVars, symbolVars>>
  /\ UNCHANGED <<inputVars, pc, gatherVars, bufVars, fmVars, verifyVars, writeVars, symbolVars>>

\* ArchiveBuilder::~ArchiveBuilder() runs for a builder, between builds or when
\* the build it made has ended
DestroyBuilder ==
  /\ pc \in {"idle", "done"} /\ fatal = "none"
  /\ \E b \in Builders :
       IF current = b
         THEN /\ current' = 0
              /\ live' = live \ {b}
              /\ refcounts' = decrement_refcounts(refcounts, symbols)
              /\ fatal' = "none"
         ELSE /\ fatal' = "assert"
              /\ UNCHANGED <<current, live, symbolVars>>
  /\ UNCHANGED <<inputVars, pc, gatherVars, bufVars, fmVars, verifyVars, constructions, writeVars>>

NextSingleton == ConstructBuilder \/ DestroyBuilder

SpecSingleton == InitSingleton /\ [][NextSingleton]_vars

\* ------------------------------------------------------------ a builder's lifetime
\* a build, and the destructor of the builder once the build has ended
NextLifetime ==
  \/ GatherKlassesAndSymbols \/ PushRoot \/ WalkField \/ FinishGather
  \/ ReserveBuffer \/ DumptimeInitVtables \/ DumpRwMetadata \/ DumpRoMetadata
  \/ RelocateMetaspaceobjEmbeddedPointers \/ VerifyEstimateSize \/ RelocateToRequested
  \/ DestroyBuilder

SpecLifetime == Init /\ [][NextLifetime]_vars

\* ------------------------------------------------------------ get_follow_mode on its own
\* any reference, whatever the collaborators answer about it, in either kind of dump
InitFollow ==
  /\ DynamicDumpSharedSpaces \in BOOLEAN
  /\ roots = <<1>>
  /\ graph = [o \in Objs |-> Unreached]
  /\ pc = "follow"
  /\ Constructed
  /\ fm_ref \in AllDescs
  /\ fm_result = "unset"

ClassifyRef ==
  /\ pc = "follow" /\ fm_result = "unset"
  /\ fm_result' = get_follow_mode(fm_ref, DynamicDumpSharedSpaces)
  /\ UNCHANGED <<inputVars, pc, fatal, gatherVars, bufVars, fm_ref, singletonVars, verifyVars, writeVars, symbolVars>>

SpecFollow == InitFollow /\ [][ClassifyRef]_vars

\* ------------------------------------------------------------ vocabulary of the properties
Finished == pc = "done" /\ fatal = "none"

\* the objects the table records as to be copied
CopyObjs ==
  { o \in Objs : SrcAddr(o) \in DOMAIN src_obj_table
                   /\ should_copy(src_obj_table[SrcAddr(o)]) }

\* the non-null pointer fields <<x, i, t>>: slot i of the copied object x refers to t
PtrFields ==
  { e \in Objs \X (1..Max({ SizeInWords(t) : t \in MsoTypes })) \X Objs :
      /\ e[1] \in CopyObjs
      /\ e[2] \in PtrSlots(graph[e[1]].d.msotype)
      /\ graph[e[1]].tgt[e[2]] = e[3] }

\* index in the buffer (and in the archive pointer bitmap) of slot i of the copy of x
FieldWordIdx(x, i) == WordIdx(src_obj_table[SrcAddr(x)].buffered_addr) + (i - 1)

\* the bit of a list's bitmap for slot i of x
ListBit(x, i) == src_obj_table[SrcAddr(x)].ptrmap_start + (i - 1)

ListOf(x) == IF src_obj_table[SrcAddr(x)].read_only THEN ro_src_objs ELSE rw_src_objs

Occurrences(seq, a) == Cardinality({ i \in DOMAIN seq : seq[i] = a })

\* ------------------------------------------------------------ C1
\* C1: once gathering, copying and both relocation passes have run, every
\* pointer field of a copied object X that referred to a copied object T holds,
\* in the copy of X, buffered_addr(T) + buffer_to_requested_delta, and the bit of
\* that word in the archive pointer bitmap is set.
C1_CopiedFieldHoldsRequestedAddress ==
  Finished =>
    \A e \in PtrFields :
      FollowModeOf(e[3]) = make_a_copy =>
        /\ SrcAddr(e[3]) \in DOMAIN src_obj_table
        /\ buf[FieldWordIdx(e[1], e[2])] =
             src_obj_table[SrcAddr(e[3])].buffered_addr + addr.buffer_to_requested_delta
        /\ FieldWordIdx(e[1], e[2]) \in ptrmap.bits

\* a finished build with a field from a copied object to another copied object in
\* the other region, and a requested address that differs from the buffer's
C1_Witness ==
  /\ Finished
  /\ addr.buffer_to_requested_delta # 0
  /\ \E e \in PtrFields :
       /\ FollowModeOf(e[3]) = make_a_copy
       /\ e[1] # e[3]
       /\ src_obj_table[SrcAddr(e[1])].read_only # src_obj_table[SrcAddr(e[3])].read_only

InRequestedRange(v) ==
  IF DumpSharedSpaces
    THEN addr.requested_static_archive_bottom <= v /\ v < addr.requested_static_archive_top
    ELSE \/ addr.requested_dynamic_archive_bottom <= v /\ v < addr.requested_dynamic_archive_top
         \/ addr.requested_static_archive_bottom <= v /\ v < addr.requested_static_archive_top

\* C3 as stated: after relocate_to_requested every field whose bit is set holds a
\* value inside the requested range of the archive being built or of the prior
\* archive, and none holds an address of the buffer's range or of the range the
\* prior archive is mapped at.
C3_AsStated ==
  Finished =>
    \A b \in ptrmap.bits :
      /\ InRequestedRange(buf[b])
      /\ ~is_in_buffer_space(addr, ro_region.top, buf[b])
      /\ ~is_in_mapped_static_archive(addr, buf[b])

\* C3: after relocate_to_requested every field whose bit is set holds a value
\* inside the requested range of the archive being built or, in a dynamic dump,
\* inside the requested range of the static archive.
C3_MarkedFieldsInRequestedRange ==
  Finished => \A b \in ptrmap.bits : InRequestedRange(buf[b])

\* a finished dynamic dump with a field that refers to the copy of an object and
\* one that refers into the static archive, which is requested elsewhere than
\* it is mapped
C3_Witness ==
  /\ Finished
  /\ DynamicDumpSharedSpaces
  /\ MappedToRequestedDelta(addr) # 0
  /\ \E b \in ptrmap.bits :
       addr.requested_dynamic_archive_bottom <= buf[b]
         /\ buf[b] < addr.requested_dynamic_archive_top
  /\ \E b \in ptrmap.bits :
       addr.requested_static_archive_bottom <= buf[b]
         /\ buf[b] < addr.requested_static_archive_top

\* ------------------------------------------------------------ C4
\* C4 as stated: after relocate_to_requested no field that holds null has its
\* bit set, and the size of the compacted bitmap is the index of the highest set
\* bit plus one, also when no bit is left (then it is nought).
C4_CompactedToHighestSetBit ==
  Finished =>
    /\ \A b \in ptrmap.bits : buf[b] # 0
    /\ ptrmap.size = IF ptrmap.bits = {} THEN 0 ELSE Max(ptrmap.bits) + 1

\* ------------------------------------------------------------ C5
InRwOrRo(v) ==
  \/ rw_region.base <= v /\ v < rw_region.top
  \/ ro_region.base <= v /\ v < ro_region.top

AfterPass1 == pc = "relocate_to_requested" /\ fatal = "none"

\* C5 as stated: after the first relocation pass every field marked in the
\* bitmap interval of a copied object holds a buffered address inside the rw or
\* the ro region.
C5_AsStated ==
  AfterPass1 =>
    \A e \in PtrFields :
      ListBit(e[1], e[2]) \in ListOf(e[1]).ptrmap => InRwOrRo(buf[FieldWordIdx(e[1], e[2])])

\* C5: after the first relocation pass a field marked in the bitmap interval of
\* a copied object holds what the table records for the object it referred to:
\* the buffered address, inside the rw or the ro region, of one that is copied;
\* the object's own address inside the mapped static archive for one that is
\* pointed to; null for one that is set to null.
C5_MarkedFieldsHoldTableAnswer ==
  AfterPass1 =>
    \A e \in PtrFields :
      ListBit(e[1], e[2]) \in ListOf(e[1]).ptrmap =>
        LET v == buf[FieldWordIdx(e[1], e[2])]
            m == FollowModeOf(e[3])
        IN  /\ m = make_a_copy =>
                 /\ v = src_obj_table[SrcAddr(e[3])].buffered_addr
                 /\ InRwOrRo(v)
                 /\ v \in DOMAIN buffered_to_src_table
                 /\ buffered_to_src_table[v] = SrcAddr(e[3])
            /\ m = point_to_it =>
                 v = SrcAddr(e[3]) /\ is_in_mapped_static_archive(addr, v)
            /\ m = set_to_null => v = 0

\* the first pass has run over a copied object with a field to a copied object,
\* over one with a field to an object that is set to null, and every pointer
\* field of a copied object is marked
C5_Witness ==
  /\ AfterPass1
  /\ \E e \in PtrFields : FollowModeOf(e[3]) = make_a_copy
  /\ \E e \in PtrFields : FollowModeOf(e[3]) = set_to_null
  /\ \A e \in PtrFields : ListBit(e[1], e[2]) \in ListOf(e[1]).ptrmap

\* ------------------------------------------------------------ C6
ElidedKind(d) ==
  /\ ~d.in_shared
  /\ \/ d.msotype \in {"MethodData", "MethodCounters"}
     \/ d.msotype = "Class" /\ is_excluded(d, DynamicDumpSharedSpaces)

\* C6: when a copied object D has a pointer field to an object E that is an
\* excluded class, a MethodData or a MethodCounters, then once gathering is over
\* the table records E as set_to_null, and once both relocation passes have run
\* the field reads null in the copy of D and its bit in the archive pointer
\* bitmap is clear.
C6_ElidedTargetReadsNull ==
  \A e \in PtrFields :
    ElidedKind(graph[e[3]].d) =>
      /\ pc \notin {"gather1", "gather2"} =>
           /\ SrcAddr(e[3]) \in DOMAIN src_obj_table
           /\ src_obj_table[SrcAddr(e[3])].follow_mode = set_to_null
      /\ Finished =>
           /\ buf[FieldWordIdx(e[1], e[2])] = 0
           /\ FieldWordIdx(e[1], e[2]) \notin ptrmap.bits

\* a finished build in which a copied class has a field to an excluded class
C6_Witness ==
  /\ Finished
  /\ \E e \in PtrFields :
       /\ graph[e[3]].d = D_ExcludedKlass
       /\ graph[e[1]].d.msotype = "Class"

\* ------------------------------------------------------------ C7
ElideRule(d) ==
  \/ d.msotype \in {"MethodData", "MethodCounters"}
  \/ d.msotype = "Class" /\ is_excluded(d, DynamicDumpSharedSpaces)

\* C7: get_follow_mode answers point_to_it for every object inside the mapped
\* shared archive, whatever its kind and whether or not it is an excluded class;
\* for any other object it answers set_to_null exactly when the object is a
\* MethodData, a MethodCounters or a class for which is_excluded holds, and
\* make_a_copy exactly when it is none of these; it answers one of the three
\* modes for every reference.
C7_FollowModeByPriority ==
  fm_result # "unset" =>
    /\ fm_result \in {make_a_copy, point_to_it, set_to_null}
    /\ fm_result = point_to_it <=> fm_ref.in_shared
    /\ fm_result = set_to_null <=> (~fm_ref.in_shared /\ ElideRule(fm_ref))
    /\ fm_result = make_a_copy <=> (~fm_ref.in_shared /\ ~ElideRule(fm_ref))

\* a MethodData inside the mapped shared archive has been classified
C7_Witness ==
  /\ fm_result = point_to_it
  /\ fm_ref.in_shared
  /\ fm_ref.msotype = "MethodData"

\* ------------------------------------------------------------ C8
\* the references through which the object at address a can be visited
RefsTo(a) ==
  {Ref(a, 0, 0)} \cup
  { FieldRef(e[1], e[2]) :
      e \in { f \in Objs \X (1..Max({ SizeInWords(t) : t \in MsoTypes })) :
                /\ f[2] \in PtrSlots(graph[f[1]].d.msotype)
                /\ graph[f[1]].tgt[f[2]] # 0
                /\ SrcAddr(graph[f[1]].tgt[f[2]]) = a } }

\* C8: the entry of a source address carries the follow mode and the read-only
\* flag of its first visit, and a further visit of an address that has an
\* entry, through any reference and with any follow mode and any read-only
\* flag, leaves the entry's follow mode, read-only flag, size and bitmap
\* interval as they are, appends to neither list and returns false.
C8_LaterVisitChangesNothing ==
  \A a \in DOMAIN src_obj_table :
    /\ src_obj_table[a].follow_mode = FollowModeOf(ObjAt(a))
    /\ src_obj_table[a].read_only = is_read_only_by_default(graph[ObjAt(a)].d.msotype)
    /\ pc \in {"gather2", "reserve"} =>
       \A ref \in RefsTo(a), ro \in BOOLEAN, m \in {make_a_copy, point_to_it, set_to_null} :
         LET r == gather_one_with_mode(src_obj_table, rw_src_objs, ro_src_objs, ref, ro, m)
         IN  /\ r.table[a].follow_mode = src_obj_table[a].follow_mode
             /\ r.table[a].read_only = src_obj_table[a].read_only
             /\ r.table[a].size_in_bytes = src_obj_table[a].size_in_bytes
             /\ r.table[a].ptrmap_start = src_obj_table[a].ptrmap_start
             /\ r.table[a].ptrmap_end = src_obj_table[a].ptrmap_end
             /\ r.rw.objs = rw_src_objs.objs
             /\ r.ro.objs = ro_src_objs.objs
             /\ r.result = FALSE

\* while gathering, a copied object of the ro list that is not the first of its
\* list has been visited a second time, through a field
C8_Witness ==
  /\ pc = "gather2"
  /\ \E a \in DOMAIN src_obj_table :
       /\ should_copy(src_obj_table[a])
       /\ src_obj_table[a].read_only
       /\ src_obj_table[a].ptrmap_start > 0
       /\ visits.calls[a] >= 2
       /\ \E ref \in RefsTo(a) : ref.enclosing # 0

\* ------------------------------------------------------------ C9
\* what make_shallow_copy allocates for the objects of a list
RECURSIVE AllocatedFor(_)
AllocatedFor(objs) ==
  IF objs = <<>> THEN 0
  ELSE LET info == src_obj_table[Head(objs)]
       IN  (IF info.msotype = "Class" /\ graph[ObjAt(Head(objs))].d.klass_kind = "instance"
              THEN align_up(WordSize, ObjAlign) ELSE 0)
           + align_up(info.size_in_bytes, ObjAlign)
           + AllocatedFor(Tail(objs))

\* what the rw region holds before the first copy is made
RwPrologue == IF DumpSharedSpaces THEN BottomPadBytes + WordSize ELSE 0

\* C9: a visited object that is pointed to or set to null has an entry in the
\* table with that mode, stands in neither list, was never recursed into, has
\* the empty bitmap interval and no copy in the buffer; the bytes allocated in
\* each region are those of the copies of its list's objects and no more.
C9_UncopiedObjectsLeaveNoTrace ==
  /\ \A a \in DOMAIN visits.calls :
       FollowModeOf(ObjAt(a)) # make_a_copy =>
         /\ a \in DOMAIN src_obj_table
         /\ src_obj_table[a].follow_mode = FollowModeOf(ObjAt(a))
         /\ Occurrences(rw_src_objs.objs, a) = 0
         /\ Occurrences(ro_src_objs.objs, a) = 0
         /\ a \notin DOMAIN visits.recursed
         /\ src_obj_table[a].ptrmap_start = 0
         /\ src_obj_table[a].ptrmap_end = 0
         /\ \A b \in DOMAIN buffered_to_src_table : buffered_to_src_table[b] # a
  /\ (fatal = "none" /\ pc \in {"dump_ro", "relocate_embedded", "relocate_to_requested", "done"}) =>
       rw_region.top - rw_region.base = RwPrologue + AllocatedFor(rw_src_objs.objs)
  /\ (fatal = "none" /\ pc \in {"relocate_embedded", "relocate_to_requested", "done"}) =>
       ro_region.top - ro_region.base = AllocatedFor(ro_src_objs.objs)

\* both regions have been filled with copies in a build that visited an object
\* that is pointed to
C9_Witness ==
  /\ pc = "relocate_embedded" /\ fatal = "none"
  /\ \E a \in DOMAIN visits.calls : FollowModeOf(ObjAt(a)) = point_to_it
  /\ rw_src_objs.objs # <<>> /\ ro_src_objs.objs # <<>>

\* ------------------------------------------------------------ C10
\* C10: the closure never recurses more often than there are distinct source
\* addresses reachable from the roots, and gathering comes to its end on every
\* graph, those with cycles and self-references included.
C10_GatheringTerminates ==
  /\ [](SumOf(visits.recursed) <= Cardinality({ SrcAddr(o) : o \in Reach(Range(roots)) }))
  /\ <>(pc \notin {"gather1", "gather2"})

\* gathering has come to its end on a graph in which two copied objects refer
\* to each other, and each of the two was visited again after it was recursed into
C10_Witness ==
  /\ pc = "reserve"
  /\ \E e, f \in PtrFields :
       /\ e[1] # e[3] /\ f[1] = e[3] /\ f[3] = e[1]
       /\ visits.calls[SrcAddr(e[1])] >= 2
       /\ visits.calls[SrcAddr(e[3])] >= 2

\* ------------------------------------------------------------ C11
\* C11: after any sequence of appends, every object of a list has a bitmap
\* interval [ptrmap_start, ptrmap_end) whose length is its byte size divided by
\* the word size; the intervals of one list are pairwise disjoint, follow each
\* other in append order without a gap, the first starting at 0, and the last
\* ends at _total_bytes divided by the word size.
C11_IntervalsTileTheList ==
  LET start(list, k) == src_obj_table[list.objs[k]].ptrmap_start
      end(list, k)   == src_obj_table[list.objs[k]].ptrmap_end
      TilesInAppendOrder(list) ==
        /\ \A k \in 1..Len(list.objs) :
             /\ list.objs[k] \in DOMAIN src_obj_table
             /\ end(list, k) - start(list, k)
                  = src_obj_table[list.objs[k]].size_in_bytes \div WordSize
             /\ start(list, k) = IF k = 1 THEN 0 ELSE end(list, k - 1)
        /\ \A j, k \in 1..Len(list.objs) :
             j # k => \/ end(list, j) <= start(list, k)
                      \/ end(list, k) <= start(list, j)
        /\ list.total_bytes \div WordSize
             = IF list.objs = <<>> THEN 0 ELSE end(list, Len(list.objs))
        /\ list.total_bytes % WordSize = 0
  IN  /\ TilesInAppendOrder(rw_src_objs)
      /\ TilesInAppendOrder(ro_src_objs)

\* a list to which three objects have been appended, not all of one size
C11_Witness ==
  /\ Len(rw_src_objs.objs) + Len(ro_src_objs.objs) = 3
  /\ \E list \in {rw_src_objs, ro_src_objs} :
       /\ Len(list.objs) >= 2
       /\ src_obj_table[list.objs[1]].size_in_bytes # src_obj_table[list.objs[2]].size_in_bytes

\* ------------------------------------------------------------ C12
\* C12: remember_embedded_pointer, for a listed object E and a field at byte
\* offset F of it, with F non-negative, word-aligned and F + word size at most
\* E's byte size, sets the bit E.ptrmap_start + F / word size of E's list and
\* changes no other bit; that bit lies inside E's interval and inside the
\* interval of no other object; the assertions of the call hold.
\* (The field reported in a step is the one that leaves the pending set. A step
\* clears no bit of a list's bitmap; the field reported, if its enclosing object
\* is a Copy object of the list, has its bit set; a bit that is new is the bit
\* of the field reported.)
C12_RememberSetsOwnBitOnly == [][
  LET ReportedInStep == pending \ pending'
      BitsSetInStep(before, after, read_only) ==
        /\ before.ptrmap \subseteq after.ptrmap
        /\ Cardinality(after.ptrmap \ before.ptrmap) <= 1
        /\ \A e \in ReportedInStep :
             LET E == src_obj_table[SrcAddr(e[1])]
             IN  (should_copy(E) /\ E.read_only = read_only) =>
                   E.ptrmap_start + (e[2] - 1) \in after.ptrmap
        /\ \A b \in after.ptrmap \ before.ptrmap :
             \E e \in ReportedInStep :
               LET E == src_obj_table[SrcAddr(e[1])]
                   F == (e[2] - 1) * WordSize
               IN  /\ should_copy(E) /\ E.read_only = read_only
                   /\ F >= 0 /\ F % WordSize = 0 /\ F + WordSize <= E.size_in_bytes
                   /\ b = E.ptrmap_start + (F \div WordSize)
                   /\ E.ptrmap_start <= b /\ b < E.ptrmap_end
                   /\ \A k \in 1..Len(after.objs) :
                        after.objs[k] # E.source_addr =>
                          ~(/\ src_obj_table'[after.objs[k]].ptrmap_start <= b
                            /\ b < src_obj_table'[after.objs[k]].ptrmap_end)
  IN  /\ BitsSetInStep(rw_src_objs, rw_src_objs', FALSE)
      /\ BitsSetInStep(ro_src_objs, ro_src_objs', TRUE)
      /\ fatal' # "assert" ]_vars

\* a field of an object that is not the first of its list has been remembered
C12_Witness ==
  \E list \in {rw_src_objs, ro_src_objs} :
    /\ Len(list.objs) >= 2
    /\ \E b \in list.ptrmap :
         /\ src_obj_table[list.objs[2]].ptrmap_start <= b
         /\ b < src_obj_table[list.objs[2]].ptrmap_end

\* ------------------------------------------------------------ C13
\* the words <<x, i>> of the copies that no bit of a list's bitmap stands for
\* and that make_shallow_copy does not fix up after the memcpy
UnmarkedWords ==
  { w \in CopyObjs \X (1..Max({ SizeInWords(t) : t \in MsoTypes })) :
      /\ w[2] <= SizeInWords(graph[w[1]].d.msotype)
      /\ ListBit(w[1], w[2]) \notin ListOf(w[1]).ptrmap
      /\ Layout(graph[w[1]].d.msotype)[w[2]] # "vptr" }

\* C13: after the first relocation pass, and after the second, every word of
\* the copy of a Copy object that was never marked, and that is not the vtable
\* pointer written after the copy, equals the word of the source object at the
\* same offset: both passes modify marked words only.
C13_UnmarkedWordsKeepSourceValue ==
  (pc \in {"verify", "relocate_to_requested", "done"} /\ fatal = "none") =>
    \A w \in UnmarkedWords : buf[FieldWordIdx(w[1], w[2])] = SrcWord(w[1], w[2])

\* both passes have run over a copy that has a marked field, a null pointer
\* field and, in another copy, a data word with the bit pattern of the source
\* address of a copied object
C13_Witness ==
  /\ Finished
  /\ PtrFields # {}
  /\ \E w \in UnmarkedWords :
       /\ Layout(graph[w[1]].d.msotype)[w[2]] = "ptr"
       /\ graph[w[1]].tgt[w[2]] = 0
  /\ \E w \in UnmarkedWords :
       /\ Layout(graph[w[1]].d.msotype)[w[2]] = "data"
       /\ SrcWord(w[1], w[2]) \in DOMAIN src_obj_table
       /\ should_copy(src_obj_table[SrcWord(w[1], w[2])])

\* ------------------------------------------------------------ C14
\* C14: the top of a region only grows; an allocation that would pass the
\* reserved end stops the build with the out-of-space error and hands out no
\* address; no copy and no allocated word lies outside the reserved span.
\* (A step of the build does not lower a top; the copies of a list are made
\* exactly when they all fit below the reserved end, and the build stops with
\* the out-of-space error when they do not; a build that has stopped takes no
\* further step.)
C14_NeverPastTheReservation ==
  /\ [](LET ReservedEnd == addr.buffer_bottom + addr.buffer_size
        IN  pc \notin {"gather1", "gather2", "reserve"} =>
              /\ \A b \in DOMAIN buffered_to_src_table :
                   /\ addr.buffer_bottom <= b
                   /\ b + src_obj_table[buffered_to_src_table[b]].size_in_bytes
                        <= ReservedEnd
              /\ \A i \in DOMAIN buf : 0 <= i /\ i < addr.buffer_size \div WordSize
              /\ rw_region.top <= ReservedEnd
              /\ ro_region.top <= ReservedEnd)
  /\ [][ LET ListFits(top, list) ==
               top + AllocatedFor(list.objs) <= addr.buffer_bottom + addr.buffer_size
         IN  /\ fatal = "none"
             /\ rw_region'.top >= rw_region.top
             /\ ro_region'.top >= ro_region.top
             /\ (pc = "dump_rw" /\ pc' = "dump_ro") =>
                  (fatal' = "out_of_space") = ~ListFits(rw_region.top, rw_src_objs)
             /\ (pc = "dump_ro" /\ pc' = "relocate_embedded") =>
                  (fatal' = "out_of_space") =
                     ~ListFits(align_up(rw_region.top, CoreRegionAlignment), ro_src_objs)
       ]_vars

\* the build has stopped with the out-of-space error in the ro region after it
\* had made copies in the rw region
C14_Witness ==
  /\ fatal = "out_of_space"
  /\ pc = "relocate_embedded"
  /\ DOMAIN buffered_to_src_table # {}
  /\ rw_region.top > rw_region.base

\* ------------------------------------------------------------ C15
\* C15: with addresses AddrBits wide, whenever reserve_buffer returns without
\* the placement error, the requested bottom of the archive plus the buffer
\* size did not wrap around 2^AddrBits, and the requested top lies strictly
\* above the requested bottom of the static archive; this holds for a static
\* archive, whose requested bottom is the base, and for a dynamic archive,
\* whose requested bottom is the aligned-up requested top of the static
\* archive, itself not wrapped.
C15_PlacedWithoutWrapAround ==
  (pc = "vtables" /\ fatal # "placement") =>
    LET base      == addr.requested_static_archive_bottom
        my_bottom == addr.buffer_bottom + addr.buffer_to_requested_delta
    IN  /\ my_bottom + addr.buffer_size < AddrSpace
        /\ my_bottom + addr.buffer_size > base
        /\ my_bottom = IF DumpSharedSpaces THEN base
                       ELSE align_up(base + (MappedStaticTop - MappedStaticBottom),
                                     CoreRegionAlignment)

\* reserve_buffer has returned for a dynamic archive whose requested top is one
\* region alignment below 2^AddrBits
C15_Witness ==
  /\ pc = "vtables" /\ fatal = "none"
  /\ DynamicDumpSharedSpaces
  /\ addr.requested_dynamic_archive_bottom + addr.buffer_size
       = AddrSpace - CoreRegionAlignment

\* ------------------------------------------------------------ C16
\* the marked fields <<x, i>> of the copies, and the place of each in the
\* order in which the first relocation pass meets them: the rw list before the
\* ro list, each list by ascending bit
MarkedFields ==
  { f \in CopyObjs \X (1..Max({ SizeInWords(t) : t \in MsoTypes })) :
      /\ f[2] <= SizeInWords(graph[f[1]].d.msotype)
      /\ ListBit(f[1], f[2]) \in ListOf(f[1]).ptrmap }

\* C16: if, during the first relocation pass, a marked field holds a source
\* address for which the table has no entry, the build stops there with a fatal
\* error: that field is not overwritten, nor is any field the pass would have
\* met after it, and the fields met before it hold the buffered address of
\* their entry. A word of the buffer is only ever overwritten, by this pass,
\* with the buffered address recorded in the entry of the address it held.
C16_MissingEntryStopsTheBuild == [][
  (pc = "relocate_embedded" /\ pc' # "relocate_embedded") =>
    LET Place(f)   == (IF src_obj_table[SrcAddr(f[1])].read_only
                         THEN rw_src_objs.total_bytes ELSE 0) + ListBit(f[1], f[2])
        Word(f)    == FieldWordIdx(f[1], f[2])
        Missing    == { f \in MarkedFields : buf[Word(f)] \notin DOMAIN src_obj_table }
    IN  /\ (fatal' = "not_archived") = (Missing # {})
        /\ (Missing = {}) => fatal' = "none"
        /\ \A w \in DOMAIN buf :
             buf'[w] # buf[w] =>
               /\ \E f \in MarkedFields : Word(f) = w
               /\ buf[w] \in DOMAIN src_obj_table
               /\ buf'[w] = src_obj_table[buf[w]].buffered_addr
        /\ \A f \in MarkedFields :
             IF \E g \in Missing : Place(g) <= Place(f)
               THEN /\ buf'[Word(f)] = buf[Word(f)]
                    /\ Word(f) \notin ptrmap'.bits
               ELSE /\ buf'[Word(f)] = src_obj_table[buf[Word(f)]].buffered_addr
                    /\ Word(f) \in ptrmap'.bits
  ]_vars

\* the first pass has stopped at a field that refers to an object without an
\* entry, after it had relocated another field
C16_Witness ==
  /\ fatal = "not_archived"
  /\ \E f, g \in MarkedFields :
       /\ buf[FieldWordIdx(f[1], f[2])] \notin DOMAIN src_obj_table
       /\ buf[FieldWordIdx(f[1], f[2])] = SrcAddr(graph[f[1]].tgt[f[2]])
       /\ FieldWordIdx(g[1], g[2]) \in ptrmap.bits
       /\ InRwOrRo(buf[FieldWordIdx(g[1], g[2])])

\* ------------------------------------------------------------ C17
\* gather_source_objs as a MetaspaceClosure runs it on the references of the
\* stack, the next one first: a reference is visited when it is pushed, and the
\* fields of an object it recurses into are visited, in their order, before the
\* reference pushed after it. st = [table, rw, ro].
RECURSIVE GatheredInOrder(_, _)
GatheredInOrder(st, stack) ==
  IF stack = <<>> THEN st
  ELSE LET ref      == Head(stack)
           o        == ObjAt(ref.obj)
           r        == gather_one_source_obj(st.table, st.rw, st.ro, ref, RefReadOnly(ref))
           IsRef(i) == i \in PtrSlots(graph[o].d.msotype) /\ graph[o].tgt[i] # 0
           slots    == SelectSeq([i \in 1..SizeInWords(graph[o].d.msotype) |-> i], IsRef)
           fields   == IF r.result THEN [k \in 1..Len(slots) |-> FieldRef(o, slots[k])]
                       ELSE <<>>
       IN  GatheredInOrder([table |-> r.table, rw |-> r.rw, ro
                              |-> r.ro], fields \o Tail(stack))

\* C17: in a static dump, where the classes and symbols the first pass gathered
\* are sorted, every order in which the first pass can enumerate them leads to
\* the same object order in each region list, the same bitmap interval for
\* every object and the same list bitmaps (and so to the same offsets, region
\* contents and archive bitmap, which the copying and the relocation passes
\* compute from these alone). It is stated for graphs in which every gathered
\* class has a name.
C17_LayoutIndependentOfEnumeration ==
  ( /\ DumpSharedSpaces
    /\ pc = "gather2"
    /\ root_queue = SortedRootPushes(symbols, klasses)
    /\ \A o \in Gathered : IsGatheredKlass(o) => KlassNameKey(o) # 0 ) =>
    LET empty == [table |-> <<>>, rw |-> EmptySourceObjList, ro |-> EmptySourceObjList]
        Pushes(ss, ks) ==
          [k \in 1..Len(SortedRootPushes(ss, ks)) |-> RootRef(SortedRootPushes(ss, ks)[k])]
        this == GatheredInOrder(empty, Pushes(symbols, klasses))
    IN  \A order \in GatherOrders :
          \A ks \in SortedSeqs(SelectSeq(order, IsGatheredKlass),
                               [o \in Objs |-> KlassNameKey(o)]),
             ss \in SortedSeqs(SelectSeq(order, IsGatheredSymbol),
                               [o \in Objs |-> SrcAddr(o)]) :
            GatheredInOrder(empty, Pushes(ss, ks)) = this

\* ------------------------------------------------------------ C18
\* C18: at most one builder is alive at any time; _current is null exactly
\* when none is alive and is the one alive otherwise; a constructor that runs
\* while a builder is alive, and a destructor that runs for a builder other
\* than the current one, fail their assertion and change nothing.
C18_OneBuilderAtATime ==
  /\ [](/\ Cardinality(live) <= 1
        /\ (current = 0) = (live = {})
        /\ current # 0 => live = {current})
  /\ [][ /\ (ConstructBuilder /\ current # 0) =>
              (fatal' = "assert" /\ live' = live /\ current' = current)
         /\ (DestroyBuilder /\ current' = current) =>
              (fatal' = "assert" /\ live' = live)
         /\ (live' # live) => fatal' = "none" ]_vars

\* a constructor, or a destructor of another builder, has failed its assertion
\* while a builder was alive that is not the first one the process constructed
C18_Witness ==
  /\ pc = "idle"
  /\ fatal = "assert"
  /\ current # 0
  /\ \E b \in Builders : b # current /\ constructions[b] >= 1

\* ------------------------------------------------------------ C19
\* C19: from reserve_buffer on, the bytes verify_estimate_size would count as
\* used, (top of the current dump space - _last_verified_top) +
\* _other_region_used_bytes, are the bytes allocated since the last
\* verification in both regions: those of the region start_dump_space has left
\* are not lost, the padding between the regions is not counted and nothing is
\* counted twice. At the call, the estimate is at least the bytes used; the
\* assertion holds exactly for estimates that are, and any smaller estimate is
\* fatal. After the call _last_verified_top is the top of the current region
\* and _other_region_used_bytes is 0.
C19_EstimateCoversBytesUsed ==
  LET in_ro     == pc \in {"relocate_embedded", "verify", "relocate_to_requested", "done"}
      cur       == IF in_ro THEN ro_region ELSE rw_region
      counted   == (cur.top - last_verified_top) + other_region_used_bytes
      allocated == (rw_region.top - rw_region.base)
                     + (IF in_ro THEN ro_region.top - ro_region.base ELSE 0)
      verified  == DynamicDumpSharedSpaces /\ pc \in {"relocate_to_requested", "done"}
  IN  (pc \notin {"gather1", "gather2", "reserve"} /\ fatal = "none") =>
        /\ ~verified => counted = allocated
        /\ pc = "verify" =>
             /\ estimated_bytes >= allocated
             /\ \A e \in 0..(allocated + WordSize) :
                  LET v == verify_estimate_size(e, ro_region)
                  IN  /\ v.used = allocated
                      /\ v.ok = (e >= allocated)
                      /\ v.last_verified_top = ro_region.top
                      /\ v.other_region_used_bytes = 0
        /\ verified =>
             /\ last_verified_top = ro_region.top
             /\ other_region_used_bytes = 0

\* verify_estimate_size has returned in a dynamic dump that allocated bytes in
\* the rw region, left it with padding behind its top, and allocated bytes in
\* the ro region
C19_Witness ==
  /\ pc = "relocate_to_requested" /\ fatal = "none"
  /\ DynamicDumpSharedSpaces
  /\ rw_region.top > rw_region.base
  /\ rw_region.end > rw_region.top
  /\ ro_region.top > ro_region.base
  /\ last_verified_top = ro_region.top

\* ------------------------------------------------------------ C20
\* C20: a build whose buffer has the size estimate_archive_size answers never
\* stops with the out-of-space error. Every object of the two lists is one the
\* first pass gathered and stands there once; what make_shallow_copy allocates
\* for it (its aligned bytes, and one word in front of an instance class) is at
\* most what gather_klass_and_symbol added to the estimate for it (its aligned
\* bytes, and one aligned word for every class), so the bytes the lists need
\* are at most _estimated_metaspaceobj_bytes, and the bytes allocated in both
\* regions stay below the size of the reserved buffer.
C20_EstimatorNeverUnderProvisions ==
  /\ fatal # "out_of_space"
  /\ pc \notin {"gather1", "gather2"} =>
       LET listed == rw_src_objs.objs \o ro_src_objs.objs
       IN  /\ \A i \in DOMAIN listed :
                /\ ObjAt(listed[i]) \in Gathered
                /\ \A j \in DOMAIN listed : listed[j] = listed[i] => j = i
                /\ AllocatedFor(<<listed[i]>>) <= EstimateOf(ObjAt(listed[i]))
           /\ AllocatedFor(listed) <= SumEstimates(Gathered)
           /\ SumEstimates(Gathered) <= estimated_bytes
  /\ (pc \notin {"gather1", "gather2", "reserve"} /\ fatal = "none") =>
       /\ addr.buffer_size = estimate_archive_size
       /\ ro_region.top <= addr.buffer_bottom + addr.buffer_size
       /\ rw_region.top <= addr.buffer_bottom + addr.buffer_size

\* every copy of a build has been made in a buffer of the estimated size; the
\* lists hold an instance class, for which the estimate is exact, and a class
\* that is not an instance class, for which it leaves a word unused
C20_Witness ==
  /\ pc = "relocate_embedded" /\ fatal = "none"
  /\ addr.buffer_size = estimate_archive_size
  /\ ro_src_objs.objs # <<>>
  /\ \E i, j \in DOMAIN rw_src_objs.objs :
       /\ AllocatedFor(<<rw_src_objs.objs[i]>>) = EstimateOf(ObjAt(rw_src_objs.objs[i]))
       /\ graph[ObjAt(rw_src_objs.objs[i])].d.klass_kind = "instance"
       /\ AllocatedFor(<<rw_src_objs.objs[j]>>) < EstimateOf(ObjAt(rw_src_objs.objs[j]))

\* ------------------------------------------------------------ C21
\* C21: write_archive makes each of its calls at most once; the rw region is
\* written before the ro region, the ro region before the bitmap, the bitmap
\* before the heap region (if one is written); the checksum is computed after
\* the regions, the bitmap, the heap region and set_requested_base; the
\* segments stand in the file in that order, the header last; from the
\* computing of the checksum to write_header no step changes the header in
\* memory, and the header that reaches the file carries the requested base and
\* the checksum of its own contents.
C21_ChecksumCoversTheWrittenHeader ==
  /\ [](LET ops == mapinfo.ops
            Called(c) == \E i \in DOMAIN ops : ops[i] = c
            Precedes(a, b) ==
              Called(b) => \E i, j \in DOMAIN ops : i < j /\ ops[i] = a /\ ops[j] = b
            NotAfter(a, b) ==
              ~ \E i, j \in DOMAIN ops : i < j /\ ops[i] = b /\ ops[j] = a
            file == mapinfo.file
        IN  /\ \A i, j \in DOMAIN ops : ops[i] = ops[j] => i = j
            /\ Precedes("write_region_rw", "write_region_ro")
            /\ Precedes("write_region_ro", "write_bitmap_region")
            /\ Precedes("write_bitmap_region", "write_heap_region")
            /\ Precedes("write_bitmap_region", "set_header_crc")
            /\ NotAfter("write_heap_region", "set_header_crc")
            /\ Precedes("set_requested_base", "set_header_crc")
            /\ Precedes("set_header_crc", "write_header")
            /\ \A i \in DOMAIN file :
                 file[i].segment = "header" =>
                   /\ i = Len(file)
                   /\ file[i].header = mapinfo.header
                   /\ file[i].header.crc = compute_header_crc(file[i].header)
                   /\ file[i].header.requested_base = addr.requested_static_archive_bottom
                   /\ Len(file[i].header.regions) = i - 1
                   /\ \A k \in 1..(i - 1) :
                        /\ file[i].header.regions[k].name = file[k].segment
                        /\ file[i].header.regions[k].used = file[k].used
            /\ \A i, j \in DOMAIN file :
                 (i < j /\ file[j].segment # "header") =>
                   <<file[i].segment, file[j].segment>> \in
                     { <<"rw", "ro">>, <<"rw", "bm">>, <<"rw", "hp">>,
                       <<"ro", "bm">>, <<"ro", "hp">>, <<"bm", "hp">> })
  /\ [][ LET Called(c) == \E i \in DOMAIN mapinfo.ops : mapinfo.ops[i] = c
         IN  (Called("set_header_crc") /\ ~Called("write_header")) =>
               mapinfo'.header = mapinfo.header ]_vars

\* write_archive has written a heap region and the header of a build whose
\* requested base is not 0, and has closed the file
C21_Witness ==
  /\ pc = "done" /\ fatal = "none"
  /\ ~mapinfo.open
  /\ mapinfo.ops = WriteArchiveCalls
  /\ mapinfo.header.requested_base # 0
  /\ mapinfo.file[Len(mapinfo.file)].segment = "header"
  /\ mapinfo.file[1].used > 0 /\ mapinfo.file[2].used > 0

\* ------------------------------------------------------------ C22
\* C22: in relocate_to_requested a marked field that holds a non-null address
\* of the buffer comes to hold it plus _buffer_to_requested_delta; in a dynamic
\* dump one that holds an address Y of the mapped static archive comes to hold
\* Y + (requested bottom - mapped bottom of the static archive); a marked field
\* that holds a non-null address of neither range, or in a static dump any
\* address outside the buffer, fails an assertion of do_bit and stops the
\* build. (The last is checked on do_bit applied to each marked field with
\* addresses of every kind put in it.)
C22_RelocatedByTheApplicableDelta ==
  [][ (pc = "relocate_to_requested" /\ pc' = "done") =>
        LET A            == addr'
            top          == ro_region.top
            InBuffer(v)  == A.buffer_bottom <= v /\ v < top
            InMapped(v)  == A.mapped_static_archive_bottom <= v
                              /\ v < A.mapped_static_archive_top
            Legal(v)     == v = 0 \/ InBuffer(v) \/ (DynamicDumpSharedSpaces /\ InMapped(v))
            st0          == [buf |-> buf, pm |-> ptrmap, max |-> 0, fatal |-> "none"]
            Tried        == { 0, WordSize, SrcHeapBottom, A.mapped_static_archive_bottom,
                              A.mapped_static_archive_top - WordSize,
                              A.mapped_static_archive_top, A.buffer_bottom,
                              top - WordSize, top }
        IN  /\ (\E b \in ptrmap.bits : ~Legal(buf[b])) => fatal' = "assert"
            /\ fatal' = "none" =>
                 \A b \in ptrmap.bits :
                   /\ InBuffer(buf[b]) =>
                        buf'[b] = (buf[b] + A.buffer_to_requested_delta) % AddrSpace
                   /\ (~InBuffer(buf[b]) /\ buf[b] # 0) =>
                        /\ DynamicDumpSharedSpaces /\ InMapped(buf[b])
                        /\ buf'[b] = (buf[b] + (A.requested_static_archive_bottom
                                                  - A.mapped_static_archive_bottom)) % AddrSpace
            /\ \A b \in ptrmap.bits : \A v \in Tried :
                 LET st == RelocateBufferToRequested_do_bit(
                             [st0 EXCEPT !.buf = (b :> v) @@ @], A, top, DumpSharedSpaces, b)
                 IN  /\ (st.fatal = "assert") = ~Legal(v)
                     /\ (Legal(v) /\ v # 0 /\ ~InBuffer(v)) =>
                          st.buf[b] = (v + (A.requested_static_archive_bottom
                                              - A.mapped_static_archive_bottom)) % AddrSpace
      ]_vars

\* a dynamic dump has been relocated whose static archive is requested
\* elsewhere than it is mapped, by another distance than the buffer's, with a
\* marked field that refers into the static archive and one that refers to a copy
C22_Witness ==
  /\ Finished
  /\ DynamicDumpSharedSpaces
  /\ MappedToRequestedDelta(addr) # 0
  /\ MappedToRequestedDelta(addr) # addr.buffer_to_requested_delta
  /\ \E e \in PtrFields :
       /\ FollowModeOf(e[3]) = point_to_it
       /\ FieldWordIdx(e[1], e[2]) \in ptrmap.bits
       /\ buf[FieldWordIdx(e[1], e[2])] = AddMappedDelta(addr, SrcAddr(e[3]))
  /\ \E e \in PtrFields :
       /\ FollowModeOf(e[3]) = make_a_copy
       /\ FieldWordIdx(e[1], e[2]) \in ptrmap.bits

\* ------------------------------------------------------------ C23
\* C23: relocate_to_requested changes each marked non-null field by one delta
\* and no other word of the buffer: the value it leaves is the value before the
\* pass plus the delta of the range that value lay in, also when the value it
\* leaves lies in the buffer's range or in the range of the mapped static
\* archive again. The bits of the null fields are cleared and no other bit
\* changes; the last field do_bit relocates is the highest one, so the bits are
\* visited in ascending order and the compacted bitmap ends behind it.
C23_EachFieldRelocatedOnce ==
  [][ (pc = "relocate_to_requested" /\ pc' = "done" /\ fatal' = "none") =>
        LET InBuffer(v) == addr'.buffer_bottom <= v /\ v < ro_region.top
            Delta(v)    == IF InBuffer(v)
                             THEN addr'.buffer_to_requested_delta
                             ELSE addr'.requested_static_archive_bottom
                                    - addr'.mapped_static_archive_bottom
            NonNull     == { b \in ptrmap.bits : buf[b] # 0 }
        IN  /\ DOMAIN buf' = DOMAIN buf
            /\ \A i \in DOMAIN buf :
                 buf'[i] = IF i \in NonNull
                             THEN (buf[i] + Delta(buf[i])) % AddrSpace
                             ELSE buf[i]
            /\ ptrmap'.bits = NonNull
            /\ NonNull # {} => ptrmap'.size = Max(NonNull) + 1
      ]_vars

\* a build has been relocated to a requested range that overlaps the buffer:
\* a marked field holds a relocated value that is an address of the buffer's
\* range, and is not the value it held before
C23_Witness ==
  /\ Finished
  /\ addr.buffer_to_requested_delta # 0
  /\ Cardinality(ptrmap.bits) >= 2
  /\ \E b \in ptrmap.bits : is_in_buffer_space(addr, ro_region.top, buf[b])

\* ------------------------------------------------------------ C24
\* C24 as stated: once an object has been copied and another object has been
\* copied behind it, each of its marked fields holds the buffered address of
\* the object the field referred to.
C24_AsStated ==
  (pc \in {"dump_ro", "relocate_embedded"} /\ fatal = "none") =>
    \A e \in PtrFields :
      LET x == src_obj_table[SrcAddr(e[1])]
      IN  ( /\ x.buffered_addr # 0
            /\ ListBit(e[1], e[2]) \in ListOf(e[1]).ptrmap
            /\ \E y \in CopyObjs :
                 src_obj_table[SrcAddr(y)].buffered_addr > x.buffered_addr )
          => buf[FieldWordIdx(e[1], e[2])] = src_obj_table[SrcAddr(e[3])].buffered_addr

\* C24: the fields of the copies are patched in one pass of their own,
\* relocate_metaspaceobj_embedded_pointers, after every object of both lists
\* has been copied: while the copies are made every marked field of a copy
\* holds the source address it was copied with, and the pass, over the rw list
\* and then the ro list, replaces in every marked field the source address of
\* the target by what the table records as the target's buffered address; at
\* that time every object to copy has its buffered address.
C24_PatchedAfterAllCopiesAreMade ==
  /\ []((pc \in {"dump_ro", "relocate_embedded"} /\ fatal = "none") =>
          \A e \in PtrFields :
            src_obj_table[SrcAddr(e[1])].buffered_addr # 0 =>
              buf[FieldWordIdx(e[1], e[2])] = SrcAddr(e[3]))
  /\ [][ (pc = "relocate_embedded" /\ pc' # pc) =>
           /\ \A o \in CopyObjs : src_obj_table[SrcAddr(o)].buffered_addr # 0
           /\ fatal' = "none"
           /\ \A e \in PtrFields :
                ListBit(e[1], e[2]) \in ListOf(e[1]).ptrmap =>
                  /\ buf[FieldWordIdx(e[1], e[2])] \in DOMAIN src_obj_table
                  /\ buf'[FieldWordIdx(e[1], e[2])] =
                       src_obj_table[buf[FieldWordIdx(e[1], e[2])]].buffered_addr
                  /\ FieldWordIdx(e[1], e[2]) \in ptrmap'.bits
       ]_vars

\* the pass has run in a build in which an object of the rw list refers to an
\* object of the ro list, which was copied after it, and the second object of
\* a list has a marked field
C24_Witness ==
  /\ pc \in {"verify", "relocate_to_requested"} /\ fatal = "none"
  /\ \E e \in PtrFields :
       /\ ~src_obj_table[SrcAddr(e[1])].read_only
       /\ FollowModeOf(e[3]) = make_a_copy
       /\ src_obj_table[SrcAddr(e[3])].read_only
       /\ buf[FieldWordIdx(e[1], e[2])] = src_obj_table[SrcAddr(e[3])].buffered_addr
  /\ \E e \in PtrFields :
       /\ ListBit(e[1], e[2]) \in ListOf(e[1]).ptrmap
       /\ Len(ListOf(e[1]).objs) >= 2
       /\ ListOf(e[1]).objs[2] = SrcAddr(e[1])

\* ------------------------------------------------------------ C25
\* C25: once both lists have been copied every object to copy has a buffered
\* address; its copy lies in the rw region if it is not read-only and in the
\* ro region if it is; two objects have different buffered addresses; the
\* reverse table has an entry for every buffered address and for nothing else,
\* and get_source_addr(get_buffered_addr(s)) = s. A buffered address, once
\* set, is never set again.
C25_BufferedAddressSetOnceAndReversible ==
  /\ []((pc \in {"relocate_embedded", "verify", "relocate_to_requested", "done"}
           /\ fatal = "none") =>
          /\ \A o \in CopyObjs :
               LET s    == SrcAddr(o)
                   info == src_obj_table[s]
                   b    == get_buffered_addr(src_obj_table, s)
                   r    == IF info.read_only THEN ro_region ELSE rw_region
               IN  /\ b # 0
                   /\ r.base <= b /\ b + info.size_in_bytes <= r.top
                   /\ get_source_addr(buffered_to_src_table, b) = s
                   /\ \A o2 \in CopyObjs \ {o} :
                        get_buffered_addr(src_obj_table, SrcAddr(o2)) # b
          /\ DOMAIN buffered_to_src_table =
               { get_buffered_addr(src_obj_table, SrcAddr(o)) : o \in CopyObjs })
  /\ [][ \A s \in DOMAIN src_obj_table :
           /\ s \in DOMAIN src_obj_table'
           /\ src_obj_table[s].buffered_addr # 0 =>
                src_obj_table'[s].buffered_addr = src_obj_table[s].buffered_addr
           /\ (should_copy(src_obj_table[s]) /\ src_obj_table'[s].buffered_addr # 0
                 /\ src_obj_table[s].buffered_addr = 0) =>
                pc = (IF src_obj_table[s].read_only THEN "dump_ro" ELSE "dump_rw")
       ]_vars

\* both lists have been copied, three objects in all, one of them an instance
\* class, which has a slot in front of its copy
C25_Witness ==
  /\ pc = "relocate_embedded" /\ fatal = "none"
  /\ Cardinality(CopyObjs) = 3
  /\ rw_src_objs.objs # <<>> /\ ro_src_objs.objs # <<>>
  /\ \E o \in CopyObjs : graph[o].d.msotype = "Class"
  /\ \A o \in CopyObjs :
       get_source_addr(buffered_to_src_table,
                       get_buffered_addr(src_obj_table, SrcAddr(o))) = SrcAddr(o)

\* ------------------------------------------------------------ C26
\* C26: from its copying on, the first word of the copy of an object whose type
\* has an archived vtable holds the address of that vtable, not the vtable
\* pointer of the source object, and the bit of that word is set in the
\* archive pointer bitmap; the copy of an object of any other type gets its
\* first word from the source and no bit from make_shallow_copy.
\* relocate_to_requested moves the vtable pointer as it moves every marked
\* field: by the buffer's delta if the vtable lies in the buffer, by the delta
\* of the mapped static archive if it lies there; the bit stays set.
C26_VtableWordPatchedAndMarked ==
  /\ []((pc \in {"dump_ro", "relocate_embedded", "verify", "relocate_to_requested"}
           /\ fatal = "none") =>
          \A o \in CopyObjs :
            LET info == src_obj_table[SrcAddr(o)]
                w    == WordIdx(info.buffered_addr)
            IN  info.buffered_addr # 0 =>
                  IF info.msotype = "Class"
                    THEN /\ buf[w] = archived_vtable
                         /\ buf[w] # SrcWord(o, 1)
                         /\ w \in ptrmap.bits
                    ELSE pc \in {"dump_ro", "relocate_embedded"} =>
                           /\ buf[w] = SrcWord(o, 1)
                           /\ w \notin ptrmap.bits)
  /\ [][ (pc = "relocate_to_requested" /\ pc' = "done" /\ fatal' = "none") =>
           \A o \in CopyObjs :
             LET info == src_obj_table[SrcAddr(o)]
                 w    == WordIdx(info.buffered_addr)
                 vt   == archived_vtable
             IN  info.msotype = "Class" =>
                   /\ w \in ptrmap'.bits
                   /\ buf'[w] =
                        (vt + (IF is_in_buffer_space(addr', ro_region.top, vt)
                                 THEN addr'.buffer_to_requested_delta
                                 ELSE MappedToRequestedDelta(addr'))) % AddrSpace
       ]_vars

\* a class and an object without a vtable have been copied and the buffer has
\* been relocated by a delta that is not 0
C26_Witness ==
  /\ Finished
  /\ addr.buffer_to_requested_delta # 0
  /\ \E o \in CopyObjs : /\ graph[o].d.msotype = "Class"
                          /\ WordIdx(src_obj_table[SrcAddr(o)].buffered_addr) \in ptrmap.bits
  /\ \E o \in CopyObjs : graph[o].d.msotype # "Class"

\* ------------------------------------------------------------ C27
\* C27: at any time of the second gathering pass, a visit of a reference to an
\* object, through any word of any enclosing object, with any follow mode and
\* any read-only flag for the target, whether or not the target has an entry:
\* if the enclosing object has an entry that is to be copied, the visit sets
\* the bit of that word, ptrmap_start of the enclosing object plus the word's
\* offset, in the bitmap of the enclosing object's list and no other bit; if
\* the reference has no enclosing object, or the enclosing object has no entry
\* or one that is not to be copied, the visit leaves both bitmaps as they are.
C27_VisitMarksFieldOfCopiedEncloser ==
  pc \in {"gather2", "reserve"} =>
    \A t \in Objs, x \in Objs \cup {0}, i \in 1..Max({ SizeInWords(k) : k \in MsoTypes }),
       ro \in BOOLEAN, m \in {make_a_copy, point_to_it, set_to_null} :
      LET enc == IF x = 0 THEN 0 ELSE SrcAddr(x)
          ref == Ref(SrcAddr(t), enc, IF x = 0 THEN 0 ELSE enc + (i - 1) * WordSize)
          r   == gather_one_with_mode(src_obj_table, rw_src_objs, ro_src_objs, ref, ro, m)
      IN  (x # 0 => i <= SizeInWords(graph[x].d.msotype)) =>
            IF enc \in DOMAIN src_obj_table /\ src_obj_table[enc].follow_mode = make_a_copy
              THEN LET bit == src_obj_table[enc].ptrmap_start + (i - 1)
                   IN  IF src_obj_table[enc].read_only
                         THEN /\ r.ro.ptrmap = ro_src_objs.ptrmap \cup {bit}
                              /\ r.rw.ptrmap = rw_src_objs.ptrmap
                         ELSE /\ r.rw.ptrmap = rw_src_objs.ptrmap \cup {bit}
                              /\ r.ro.ptrmap = ro_src_objs.ptrmap
              ELSE /\ r.rw.ptrmap = rw_src_objs.ptrmap
                   /\ r.ro.ptrmap = ro_src_objs.ptrmap

\* the pass has recorded an object to copy, in whose list a bit is set for a
\* field whose target is not copied, and an object that is not copied; an
\* object with an entry has been visited again through a field, and one object
\* has no entry yet
C27_Witness ==
  /\ pc = "gather2"
  /\ \E e \in PtrFields :
       /\ FollowModeOf(e[3]) # make_a_copy
       /\ ListBit(e[1], e[2]) \in ListOf(e[1]).ptrmap
  /\ \E a \in DOMAIN visits.calls : visits.calls[a] >= 2
  /\ \E o \in Objs : SrcAddr(o) \notin DOMAIN src_obj_table

\* ------------------------------------------------------------ C28
\* C28: _symbols holds the gathered symbols and _klasses the gathered classes,
\* each once, and no excluded class; in a static dump the symbols stand in
\* strictly ascending order of their addresses and the classes in
\* non-descending order of their names (the addresses of their name Symbols),
\* in a dynamic dump both stand in the order some closure gathered them in;
\* iterate_sorted_roots pushes the symbols, then the classes, then the
\* ordinary roots, each list from its first element to its last.
C28_SortedRootsPushedInOrder ==
  /\ [](pc # "gather1" =>
          /\ Range(symbols) = { o \in Gathered : graph[o].d.msotype = "Symbol" }
          /\ Range(klasses) = { o \in Gathered : graph[o].d.msotype = "Class" }
          /\ \A i, j \in DOMAIN symbols : symbols[i] = symbols[j] => i = j
          /\ \A i, j \in DOMAIN klasses : klasses[i] = klasses[j] => i = j
          /\ \A i \in DOMAIN klasses :
               ~is_excluded(graph[klasses[i]].d, DynamicDumpSharedSpaces)
          /\ DumpSharedSpaces =>
               /\ \A i, j \in DOMAIN symbols :
                    i < j => SrcAddr(symbols[i]) < SrcAddr(symbols[j])
               /\ \A i, j \in DOMAIN klasses :
                    i < j => SrcWord(klasses[i], 2) <= SrcWord(klasses[j], 2)
          /\ \E n \in 0..Len(symbols \o klasses \o roots) :
               root_queue = SubSeq(symbols \o klasses \o roots, n + 1,
                                   Len(symbols \o klasses \o roots)))
  /\ [][ /\ (pc = "gather1" /\ pc' = "gather2") =>
              /\ root_queue' = symbols' \o klasses' \o roots
              /\ DynamicDumpSharedSpaces =>
                   \E order \in GatherOrders :
                     /\ symbols' = SelectSeq(order, IsGatheredSymbol)
                     /\ klasses' = SelectSeq(order, IsGatheredKlass)
         /\ (pc = "gather2" /\ root_queue' # root_queue) =>
              /\ root_queue' = Tail(root_queue)
              /\ SrcAddr(Head(root_queue)) \in DOMAIN visits'.calls
              /\ visits'.calls[SrcAddr(Head(root_queue))] =
                   (IF SrcAddr(Head(root_queue)) \in DOMAIN visits.calls
                      THEN visits.calls[SrcAddr(Head(root_queue))] ELSE 0) + 1
       ]_vars

\* every root of a static dump has been pushed: two symbols that were gathered
\* in the order opposite to that of their addresses, and a class
C28_Witness ==
  /\ pc = "reserve" /\ fatal = "none"
  /\ DumpSharedSpaces
  /\ Len(symbols) >= 2 /\ Len(klasses) >= 1
  /\ graph[1].d.msotype = "Class"
  /\ graph[1].tgt[2] = symbols[2]
  /\ graph[1].tgt[3] = symbols[1]

\* ------------------------------------------------------------ C29
\* C29: in each list the size of the bitmap is greater than the ptrmap_end of
\* every listed object and than every bit that is set; a step never makes the
\* bitmap smaller and never clears a bit; a step that appends an object whose
\* ptrmap_end the bitmap's size does not exceed resizes the bitmap to
\* (ptrmap_end + 1) * 2, and one that appends any other object leaves the size.
C29_ListBitmapCoversEveryInterval ==
  /\ [](\A list \in {rw_src_objs, ro_src_objs} :
          /\ \A i \in DOMAIN list.objs :
               /\ list.objs[i] \in DOMAIN src_obj_table
               /\ src_obj_table[list.objs[i]].ptrmap_end < list.ptrmap_size
          /\ \A b \in list.ptrmap : 0 <= b /\ b < list.ptrmap_size)
  /\ [][ \A pair \in { <<rw_src_objs, rw_src_objs'>>, <<ro_src_objs, ro_src_objs'>> } :
           LET old == pair[1]
               new == pair[2]
           IN  /\ new.ptrmap_size >= old.ptrmap_size
               /\ old.ptrmap \subseteq new.ptrmap
               /\ Len(new.objs) > Len(old.objs) =>
                    LET needed == src_obj_table'[new.objs[Len(new.objs)]].ptrmap_end
                    IN  /\ Len(new.objs) = Len(old.objs) + 1
                        /\ needed = new.total_bytes \div WordSize
                        /\ new.ptrmap_size = IF old.ptrmap_size <= needed
                                               THEN (needed + 1) * 2
                                               ELSE old.ptrmap_size
               /\ Len(new.objs) = Len(old.objs) => new.ptrmap_size = old.ptrmap_size
       ]_vars

\* a list's bitmap has grown and a bit beyond its initial size is set; an
\* object has been appended whose ptrmap_end was the size of the bitmap
C29_Witness ==
  \E list \in {rw_src_objs, ro_src_objs} :
    /\ list.ptrmap_size > InitialPtrmapSize
    /\ \E b \in list.ptrmap : b >= InitialPtrmapSize
    /\ \E i \in DOMAIN list.objs :
         src_obj_table[list.objs[i]].ptrmap_end = InitialPtrmapSize

\* ------------------------------------------------------------ C30
\* C30: once both lists have been copied, the copies of the objects of a list
\* lie in the list's region, between its base and its top, each copy ending
\* at or before the address at which the copy of the next object of the list
\* begins; so in every log_data(base, top) call that log_metaspace_objects
\* makes for the region, top is at least base.
C30_CopiesAscendInListOrder ==
  (pc \in {"relocate_embedded", "verify", "relocate_to_requested", "done"} /\ fatal = "none") =>
    \A rl \in { <<rw_region, rw_src_objs>>, <<ro_region, ro_src_objs>> } :
      LET region == rl[1]
          objs   == rl[2].objs
          dest(i) == src_obj_table[objs[i]].buffered_addr
          end(i)  == dest(i) + src_obj_table[objs[i]].size_in_bytes
          calls  == log_metaspace_objects(region, rl[2])
      IN  /\ \A i \in DOMAIN objs :
               /\ region.base <= dest(i)
               /\ dest(i) < end(i)
               /\ end(i) <= region.top
               /\ \A j \in DOMAIN objs : i < j => end(i) <= dest(j)
          /\ Len(calls) \in { Len(objs) + 1, Len(objs) + 2 }
          /\ \A k \in DOMAIN calls : calls[k].top >= calls[k].base

\* a relocated build with three copies in one region, in front of the second of
\* which lies the slot of an instance class, and a region that ends behind its
\* last copy
C30_Witness ==
  /\ Finished
  /\ \E rl \in { <<rw_region, rw_src_objs>>, <<ro_region, ro_src_objs>> } :
       /\ Len(rl[2].objs) = 3
       /\ src_obj_table[rl[2].objs[2]].buffered_addr >
            src_obj_table[rl[2].objs[1]].buffered_addr
              + src_obj_table[rl[2].objs[1]].size_in_bytes
       /\ Len(log_metaspace_objects(rl[1], rl[2])) = 5

\* ------------------------------------------------------------ C31
\* the fields <<x, i>> of listed objects that refer to a regenerated object
FieldsToRegenerated ==
  { e \in PtrFields : e[3] \in RegeneratedObjs /\ SrcAddr(e[1]) \in DOMAIN src_obj_table
                      /\ src_obj_table[SrcAddr(e[1])].size_in_bytes > 0 }

\* C31: while the objects are gathered and copied no regenerated object has an
\* entry in the object table, gather_one_source_obj asks for no descent into
\* one, and the bit of a field that refers to one is set neither in the bitmap
\* of a list nor in the archive's; once dump_ro_metadata has returned, the
\* table answers for a regenerated object the buffered address it answers for
\* its regenerated version, a copy in the buffer; and the step that records
\* the regenerated objects leaves the entries of the regenerated versions, and
\* every other entry it found, as they are when the copies have been made.
C31_RegeneratedResolvesToItsReplacement ==
  /\ []( fatal = "none" =>
          /\ \A o \in RegeneratedObjs :
               /\ SrcAddr(o) \notin DOMAIN visits.recursed
               /\ pc \in {"gather1", "gather2", "reserve", "vtables", "dump_rw", "dump_ro"}
                    => SrcAddr(o) \notin DOMAIN src_obj_table
               /\ pc \in {"relocate_embedded", "verify", "relocate_to_requested", "done"}
                    => /\ SrcAddr(o) \in DOMAIN src_obj_table
                       /\ SrcAddr(graph[o].d.regen) \in DOMAIN src_obj_table
                       /\ src_obj_table[SrcAddr(o)].buffered_addr
                            = src_obj_table[SrcAddr(graph[o].d.regen)].buffered_addr
                       /\ src_obj_table[SrcAddr(o)].buffered_addr
                            \in DOMAIN buffered_to_src_table
                       /\ buffered_to_src_table[src_obj_table[SrcAddr(o)].buffered_addr]
                            = SrcAddr(graph[o].d.regen)
          /\ \A e \in FieldsToRegenerated :
               /\ ListBit(e[1], e[2]) \notin ListOf(e[1]).ptrmap
               /\ pc \in {"relocate_embedded", "verify", "relocate_to_requested", "done"}
                    => FieldWordIdx(e[1], e[2]) \notin ptrmap.bits )
  /\ [][ (pc = "dump_ro" /\ fatal' = "none") =>
           \A a \in DOMAIN src_obj_table :
             /\ a \in DOMAIN src_obj_table'
             /\ src_obj_table[a].buffered_addr # 0 => src_obj_table'[a] = src_obj_table[a]
             /\ [src_obj_table'[a] EXCEPT !.buffered_addr = 0]
                  = [src_obj_table[a] EXCEPT !.buffered_addr = 0] ]_vars

\* a finished build in which a field of a copied object refers to a regenerated
\* class, which the walker has visited and which the table resolves to the copy
\* of its regenerated version
C31_Witness ==
  /\ Finished
  /\ \E e \in FieldsToRegenerated :
       /\ SrcAddr(e[3]) \in DOMAIN visits.calls
       /\ SrcAddr(e[3]) \in DOMAIN src_obj_table
       /\ src_obj_table[SrcAddr(e[3])].buffered_addr # 0
       /\ src_obj_table[SrcAddr(e[3])].buffered_addr
            = src_obj_table[SrcAddr(graph[e[3]].d.regen)].buffered_addr

C33_OffsetIndependentOfAddressSpace ==
  (pc \in {"relocate_embedded", "verify", "relocate_to_requested", "done"} /\ fatal = "none") =>
    /\ \A o \in Objs :
         (SrcAddr(o) \in DOMAIN src_obj_table /\ FollowModeOf(o) = make_a_copy) =>
           LET s   == SrcAddr(o)
               b   == src_obj_table[s].buffered_addr
               of_s == any_to_offset(addr, ro_region.top, src_obj_table,
                                     DynamicDumpSharedSpaces, s)
               of_b == any_to_offset(addr, ro_region.top, src_obj_table,
                                     DynamicDumpSharedSpaces, b)
           IN  /\ of_s.ok /\ of_b.ok
               /\ of_s.offset = of_b.offset
               /\ of_s.offset = to_requested(addr, b) - addr.requested_static_archive_bottom
               /\ of_s.offset =
                    (b - addr.buffer_bottom)
                    + (IF DynamicDumpSharedSpaces
                         THEN addr.requested_dynamic_archive_bottom
                                - addr.requested_static_archive_bottom
                         ELSE 0)
    /\ DynamicDumpSharedSpaces =>
         \A p \in MappedStaticBottom..(MappedStaticTop - 1) :
           any_to_offset(addr, ro_region.top, src_obj_table, DynamicDumpSharedSpaces, p)
             = [ok |-> TRUE, offset |-> p - MappedStaticBottom]

\* a dynamic dump has copied an object into the ro region and has met a class
\* of the mapped static archive; the offset of the copy is beyond the static
\* archive
C33_Witness ==
  /\ pc = "relocate_to_requested" /\ fatal = "none" /\ DynamicDumpSharedSpaces
  /\ \E o, q \in Objs :
       /\ SrcAddr(o) \in DOMAIN src_obj_table /\ FollowModeOf(o) = make_a_copy
       /\ src_obj_table[SrcAddr(o)].read_only
       /\ SrcAddr(q) \in DOMAIN src_obj_table /\ FollowModeOf(q) = point_to_it
       /\ any_to_offset(addr, ro_region.top, src_obj_table, DynamicDumpSharedSpaces,
                        SrcAddr(o)).offset >= MappedStaticSize

\* ------------------------------------------------------------ C34
\* C34: every class of _klasses is an object to copy from the moment it is
\* appended; when the second gathering pass has ended it has a table entry
\* with follow mode make_a_copy, has been recursed into once and stands in the
\* rw list; and once the copies have been made make_klasses_shareable finds an
\* entry for each, with the address of the class's own copy in the rw region.
C34_GatheredKlassesResolve ==
  fatal = "none" =>
    \A i \in DOMAIN klasses :
      LET o == klasses[i]
          s == SrcAddr(o)
      IN  /\ graph[o].d.msotype = "Class"
          /\ FollowModeOf(o) = make_a_copy
          /\ pc \notin {"gather1", "gather2"} =>
               /\ s \in DOMAIN src_obj_table
               /\ should_copy(src_obj_table[s])
               /\ s \in DOMAIN visits.recursed /\ visits.recursed[s] = 1
               /\ Occurrences(rw_src_objs.objs, s) = 1
          /\ pc \in {"relocate_embedded", "verify", "relocate_to_requested", "done"} =>
               LET m == make_klasses_shareable(src_obj_table, klasses)
               IN  /\ m.ok
                   /\ m.k[i] # 0
                   /\ rw_region.base <= m.k[i] /\ m.k[i] < rw_region.top
                   /\ m.k[i] \in DOMAIN buffered_to_src_table
                   /\ buffered_to_src_table[m.k[i]] = s

\* the copies have been made of a graph with two gathered classes and a class
\* that is excluded, which the second pass has recorded but which is not in
\* _klasses
C34_Witness ==
  /\ pc = "relocate_embedded" /\ fatal = "none"
  /\ Len(klasses) = 2
  /\ \E o \in Objs : graph[o].d = D_ExcludedKlass /\ SrcAddr(o) \in DOMAIN src_obj_table
  /\ make_klasses_shareable(src_obj_table, klasses).ok
  /\ \A i \in DOMAIN klasses : make_klasses_shareable(src_obj_table, klasses).k[i] # 0

\* ------------------------------------------------------------ C35
\* C35: a builder calls increment_refcount once on each Symbol it gathers, in
\* the first gathering pass, and on nothing else; a Symbol it has incremented
\* stands once in _symbols; while the builder is alive it decrements nothing;
\* its destructor calls decrement_refcount once on each Symbol it incremented
\* and on nothing else, so that afterwards every Symbol has been decremented
\* as often as it has been incremented.
C35_SymbolRefcountsBalanced ==
  /\ []( \A o \in Objs :
           /\ refcounts[o].dec <= refcounts[o].inc
           /\ refcounts[o].inc <= 1
           /\ pc = "gather1" => refcounts[o].inc = 0
           /\ pc \notin {"gather1", "idle", "follow"} =>
                /\ refcounts[o].inc = Occurrences(symbols, o)
                /\ refcounts[o].inc =
                     (IF o \in Gathered /\ graph[o].d.msotype = "Symbol" THEN 1 ELSE 0)
           /\ current = TheBuilder => refcounts[o].dec = 0
           /\ (current = 0 /\ pc = "done") => refcounts[o].dec = refcounts[o].inc )
  /\ [][ /\ (\E o \in Objs : refcounts'[o].inc # refcounts[o].inc)
              => (pc = "gather1" /\ pc' = "gather2")
         /\ (\E o \in Objs : refcounts'[o].dec # refcounts[o].dec)
              => (current = TheBuilder /\ current' = 0) ]_vars

\* the builder of a build that gathered two Symbols, and recorded an object
\* that it did not increment, has been destroyed
C35_Witness ==
  /\ pc = "done" /\ fatal = "none" /\ current = 0
  /\ Len(symbols) = 2
  /\ \A i \in DOMAIN symbols :
       refcounts[symbols[i]].inc = 1 /\ refcounts[symbols[i]].dec = 1
  /\ \E o \in Objs : refcounts[o].inc = 0 /\ SrcAddr(o) \in DOMAIN src_obj_table

====
